---- MODULE Spec2Model ----
(***************************************************************************)
(* Model of the referral reconciliation engine (reconcile.ts): grouping    *)
(* of raw events by referral_id, deduplication by seq, sorting, sequence   *)
(* gap counting, ordered replay and selection of the active appointment;   *)
(* and of the API server around it: the authenticate and requireAdmin      *)
(* middleware, the upload handler, the ChunkedBatchWriter, the document     *)
(* store and the referral read endpoints.                                  *)
(***************************************************************************)
EXTENDS Integers, Sequences, FiniteSets, TLC

\* One run of reconcile.
VARIABLES events, pc, eventsByReferral, todo, state, isTerminal, idx, map

\* The server: the document store, and per request in flight the request,
\* its position, req.user, its ChunkedBatchWriter, the promise of the
\* writer's commit(), the response sent and the value it holds across an
\* await (the decoded token, the referral document of a detail read).
VARIABLES db, req, rpc, user, wr, commitP, resp, seen

reconcileVars == <<events, pc, eventsByReferral, todo, state, isTerminal, idx, map>>

serverVars == <<db, req, rpc, user, wr, commitP, resp, seen>>

vars == <<events, pc, eventsByReferral, todo, state, isTerminal, idx, map,
          db, req, rpc, user, wr, commitP, resp, seen>>

(***************************************************************************)
(* Bounds of the model.                                                    *)
(***************************************************************************)
MaxLen == 3
MaxSeq == 3

(***************************************************************************)
(* models.ts: the domain types.                                            *)
(***************************************************************************)
EventType == {"STATUS_UPDATE", "APPOINTMENT_SET", "APPOINTMENT_CANCELLED"}

Status == {"CREATED", "SENT", "ACKNOWLEDGED", "SCHEDULED", "COMPLETED", "CANCELLED"}

TERMINAL_STATUSES == {"COMPLETED", "CANCELLED"}

\* An optional payload field that is absent reads as undefined.
Undefined == "undefined"

\* Appointment | null: the null of active_appointment and of a cancelled entry.
Null == [null |-> TRUE]

Appointment(apptId, startTime) == [appt_id |-> apptId, start_time |-> startTime]

ReferralEvent(r, s, t, st, a, tm) ==
    [referral_id |-> r, seq |-> s, type |-> t,
     payload |-> [status |-> st, appt_id |-> a, start_time |-> tm]]

\* obj[k] of a key the object does not have.
Missing == [undefined |-> TRUE]

\* JavaScript truthiness of an optional string field and of an object read
\* from a record (Appointment | null | undefined).
Truthy(v) == v # Undefined

TruthyObj(v) == v # Null /\ v # Missing

(***************************************************************************)
(* The inputs: referral ids, appointment ids and start times of the feed.  *)
(* parseISO maps an ISO-8601 string to its instant (here: days since       *)
(* 2025-05-01T09:00:00Z).                                                  *)
(***************************************************************************)
Referrals == {"R1", "R2"}

ApptIds == {"A", "B"}

StartTimes == {"2025-05-05T09:00:00Z", "2025-05-10T09:00:00Z"}

\* The time value of an Invalid Date: a number outside the instants and
\* outside the results of compareAsc.
NaN == -2

\* The JavaScript comparison x < y of two numbers.
LessThan(x, y) == x # NaN /\ y # NaN /\ x < y

\* date-fns parseISO: the instant of an ISO-8601 string, an Invalid Date for
\* a string that is not ISO-8601.
parseISO(s) ==
    CASE s = "2025-05-05T09:00:00Z" -> 4
      [] s = "2025-05-10T09:00:00Z" -> 9
      [] OTHER -> NaN

\* date-fns compareAsc: -1, 0 or 1, and NaN when a date is invalid.
compareAsc(a, b) ==
    IF a = NaN \/ b = NaN THEN NaN
    ELSE IF a < b THEN -1 ELSE IF a > b THEN 1 ELSE 0

Seqs == 1..MaxSeq

EventUniverse ==
    {ReferralEvent("R1", s, "STATUS_UPDATE", st, Undefined, Undefined) :
        s \in Seqs, st \in {"SENT", "COMPLETED", "CANCELLED"}}
    \cup {ReferralEvent("R1", s, "APPOINTMENT_SET", Undefined, "A", tm) :
        s \in Seqs, tm \in StartTimes}
    \cup {ReferralEvent("R1", s, "APPOINTMENT_SET", Undefined, "B", "2025-05-05T09:00:00Z") :
        s \in Seqs}
    \cup {ReferralEvent("R1", s, "APPOINTMENT_CANCELLED", Undefined, "A", Undefined) :
        s \in Seqs}
    \cup {ReferralEvent("R2", 1, "STATUS_UPDATE", st, Undefined, Undefined) :
        st \in {"SENT", "COMPLETED"}}

EventLists == UNION {[1..n -> EventUniverse] : n \in 0..MaxLen}

(***************************************************************************)
(* JavaScript objects and Maps with string or number keys that are not     *)
(* array indices: an insertion-ordered list of (key, value) entries.       *)
(* Assigning to an existing key keeps its position.                        *)
(***************************************************************************)
Has(obj, k) == \E i \in 1..Len(obj) : obj[i].key = k

Get(obj, k) == obj[CHOOSE i \in 1..Len(obj) : obj[i].key = k].value

Put(obj, k, v) ==
    IF Has(obj, k)
    THEN [obj EXCEPT ![CHOOSE i \in 1..Len(obj) : obj[i].key = k] = [key |-> k, value |-> v]]
    ELSE Append(obj, [key |-> k, value |-> v])

Keys(obj) == [i \in 1..Len(obj) |-> obj[i].key]

Values(obj) == [i \in 1..Len(obj) |-> obj[i].value]

\* obj[k] read as an expression: undefined when the key is absent.
Lookup(obj, k) == IF Has(obj, k) THEN Get(obj, k) ELSE Missing

(***************************************************************************)
(* reconcile, lines 70-78: group events by referral_id.                    *)
(***************************************************************************)
GroupStep(acc, event) ==
    LET withKey == IF ~Has(acc, event.referral_id)
                   THEN Put(acc, event.referral_id, <<>>)
                   ELSE acc
    IN Put(withKey, event.referral_id, Append(Get(withKey, event.referral_id), event))

\* The loop over evs[lo..hi], split in halves with the first half evaluated
\* before the second, so that a batch of several hundred events is folded
\* with a shallow recursion.
RECURSIVE GroupRange(_, _, _, _)
GroupRange(acc, evs, lo, hi) ==
    IF lo > hi THEN acc
    ELSE IF lo = hi THEN GroupStep(acc, evs[lo])
    ELSE LET mid == (lo + hi) \div 2
             left == GroupRange(acc, evs, lo, mid)
         IN IF Len(left) >= 0 THEN GroupRange(left, evs, mid + 1, hi) ELSE left

GroupEvents(acc, evs) == GroupRange(acc, evs, 1, Len(evs))

(***************************************************************************)
(* reconcile, lines 84-96: deduplicate by seq, then sort ascending by seq. *)
(***************************************************************************)
\* Mutants of DedupStep: a duplicate is dropped without being counted; every
\* event is counted; the last occurrence replaces the retained one.
DedupStepNoCount(acc, event) ==
    IF Has(acc.uniqueEventsMap, event.seq)
    THEN acc
    ELSE [acc EXCEPT !.uniqueEventsMap = Put(@, event.seq, event)]

DedupStepCountAll(acc, event) ==
    IF Has(acc.uniqueEventsMap, event.seq)
    THEN [acc EXCEPT !.duplicateCount = @ + 1]
    ELSE [acc EXCEPT !.uniqueEventsMap = Put(@, event.seq, event),
                     !.duplicateCount = @ + 1]

DedupStepLastWins(acc, event) ==
    IF Has(acc.uniqueEventsMap, event.seq)
    THEN [acc EXCEPT !.duplicateCount = @ + 1,
                     !.uniqueEventsMap = Put(@, event.seq, event)]
    ELSE [acc EXCEPT !.uniqueEventsMap = Put(@, event.seq, event)]

DedupStep(acc, event) ==
    IF Has(acc.uniqueEventsMap, event.seq)
    THEN [acc EXCEPT !.duplicateCount = @ + 1]
    ELSE [acc EXCEPT !.uniqueEventsMap = Put(@, event.seq, event)]

RECURSIVE DedupRange(_, _, _, _)
DedupRange(acc, rawEvents, lo, hi) ==
    IF lo > hi THEN acc
    ELSE IF lo = hi THEN DedupStep(acc, rawEvents[lo])
    ELSE LET mid == (lo + hi) \div 2
             left == DedupRange(acc, rawEvents, lo, mid)
         IN IF left.duplicateCount >= 0
            THEN DedupRange(left, rawEvents, mid + 1, hi)
            ELSE left

Dedup(acc, rawEvents) == DedupRange(acc, rawEvents, 1, Len(rawEvents))

\* Array.prototype.sort with the comparator a.seq - b.seq (a stable sort).
RECURSIVE InsertBySeq(_, _)
InsertBySeq(sorted, e) ==
    IF sorted = <<>> THEN <<e>>
    ELSE IF e.seq - Head(sorted).seq < 0 THEN <<e>> \o sorted
    ELSE <<Head(sorted)>> \o InsertBySeq(Tail(sorted), e)

\* Mutant of SortBySeq: the retained events stay in Map insertion order.
SortBySeqNone(evs) == evs

RECURSIVE SortBySeq(_)
SortBySeq(evs) ==
    IF evs = <<>> THEN <<>>
    ELSE InsertBySeq(SortBySeq(SubSeq(evs, 1, Len(evs) - 1)), evs[Len(evs)])

(***************************************************************************)
(* reconcile, lines 98-110: sum of the gaps between consecutive seqs.      *)
(***************************************************************************)
RECURSIVE SeqGapsFrom(_, _)
SeqGapsFrom(sortedEvents, i) ==
    IF i >= Len(sortedEvents) THEN 0
    ELSE LET diff == sortedEvents[i + 1].seq - sortedEvents[i].seq
         IN (IF diff > 1 THEN diff - 1 ELSE 0) + SeqGapsFrom(sortedEvents, i + 1)

\* Mutant of SeqGaps: the seqs missing before the first retained one count too.
SeqGapsFromOne(sortedEvents) ==
    SeqGapsFrom(sortedEvents, 1)
    + (IF sortedEvents = <<>> THEN 0 ELSE sortedEvents[1].seq - 1)

SeqGaps(sortedEvents) == SeqGapsFrom(sortedEvents, 1)

(***************************************************************************)
(* reconcile, lines 112-127: the state a referral's replay starts from.    *)
(***************************************************************************)
InitialState(referralId, rawEvents) ==
    LET d == Dedup([uniqueEventsMap |-> <<>>, duplicateCount |-> 0], rawEvents)
        sortedEvents == SortBySeq(Values(d.uniqueEventsMap))
    IN [referral_id |-> referralId,
        status |-> "CREATED",
        active_appointment |-> Null,
        metrics |-> [duplicates |-> d.duplicateCount,
                     seqGaps |-> SeqGaps(sortedEvents),
                     terminalOverrides |-> 0,
                     reschedules |-> 0,
                     cancelledAppts |-> 0],
        events |-> sortedEvents,
        appointments |-> <<>>]

(***************************************************************************)
(* reconcile, lines 130-179: the replay of one event.  A replay state is   *)
(* the pair of the ReferralState and the local flag isTerminal.            *)
(***************************************************************************)
\* Mutants of ApplyStatusUpdate: a non-terminal update is applied after a
\* terminal one; an override is counted only when it changes the status; a
\* non-terminal status is set only once.
ApplyStatusUpdateNoAbsorb(rs, event) ==
    IF event.type = "STATUS_UPDATE" /\ Truthy(event.payload.status)
    THEN LET newStatus == event.payload.status
             newIsTerminal == newStatus \in TERMINAL_STATUSES
         IN IF rs.isTerminal /\ newIsTerminal
            THEN [rs EXCEPT !.state.status = newStatus,
                            !.state.metrics.terminalOverrides = @ + 1]
            ELSE [rs EXCEPT !.state.status = newStatus,
                            !.isTerminal = rs.isTerminal \/ newIsTerminal]
    ELSE rs

ApplyStatusUpdateCountChanges(rs, event) ==
    IF event.type = "STATUS_UPDATE" /\ Truthy(event.payload.status)
    THEN LET newStatus == event.payload.status
             newIsTerminal == newStatus \in TERMINAL_STATUSES
         IN IF rs.isTerminal
            THEN IF newIsTerminal
                 THEN [rs EXCEPT !.state.status = newStatus,
                                 !.state.metrics.terminalOverrides =
                                     IF newStatus # rs.state.status THEN @ + 1 ELSE @]
                 ELSE rs
            ELSE [rs EXCEPT !.state.status = newStatus,
                            !.isTerminal = newIsTerminal]
    ELSE rs

ApplyStatusUpdateKeepFirst(rs, event) ==
    IF event.type = "STATUS_UPDATE" /\ Truthy(event.payload.status)
    THEN LET newStatus == event.payload.status
             newIsTerminal == newStatus \in TERMINAL_STATUSES
         IN IF rs.isTerminal
            THEN IF newIsTerminal
                 THEN [rs EXCEPT !.state.status = newStatus,
                                 !.state.metrics.terminalOverrides = @ + 1]
                 ELSE rs
            ELSE IF rs.state.status = "CREATED" \/ newIsTerminal
                 THEN [rs EXCEPT !.state.status = newStatus,
                                 !.isTerminal = newIsTerminal]
                 ELSE rs
    ELSE rs

ApplyStatusUpdate(rs, event) ==
    IF event.type = "STATUS_UPDATE" /\ Truthy(event.payload.status)
    THEN LET newStatus == event.payload.status
             newIsTerminal == newStatus \in TERMINAL_STATUSES
         IN IF rs.isTerminal
            THEN IF newIsTerminal
                 THEN [rs EXCEPT !.state.status = newStatus,
                                 !.state.metrics.terminalOverrides = @ + 1]
                 ELSE rs
            ELSE [rs EXCEPT !.state.status = newStatus,
                            !.isTerminal = newIsTerminal]
    ELSE rs

\* Mutant of ApplyAppointmentSet: a set of a cancelled appointment counts as
\* a reschedule.
ApplyAppointmentSetCountResurrection(rs, event) ==
    IF event.type = "APPOINTMENT_SET" /\ Truthy(event.payload.appt_id)
       /\ Truthy(event.payload.start_time)
    THEN LET apptId == event.payload.appt_id
             old == Lookup(rs.state.appointments, apptId)
             resched == \/ old = Null
                        \/ TruthyObj(old) /\ old.start_time # event.payload.start_time
         IN [rs EXCEPT !.state.metrics.reschedules = IF resched THEN @ + 1 ELSE @,
                       !.state.appointments =
                           Put(@, apptId, Appointment(apptId, event.payload.start_time))]
    ELSE rs

\* Mutant of ApplyAppointmentCancelled: the entry is marked cancelled and
\* counted whether or not the appointment is there.
ApplyAppointmentCancelledAlways(rs, event) ==
    IF event.type = "APPOINTMENT_CANCELLED" /\ Truthy(event.payload.appt_id)
    THEN [rs EXCEPT !.state.appointments = Put(@, event.payload.appt_id, Null),
                    !.state.metrics.cancelledAppts = @ + 1]
    ELSE rs

ApplyAppointmentSet(rs, event) ==
    IF event.type = "APPOINTMENT_SET" /\ Truthy(event.payload.appt_id)
       /\ Truthy(event.payload.start_time)
    THEN LET apptId == event.payload.appt_id
             old == Lookup(rs.state.appointments, apptId)
             resched == TruthyObj(old) /\ old.start_time # event.payload.start_time
         IN [rs EXCEPT !.state.metrics.reschedules = IF resched THEN @ + 1 ELSE @,
                       !.state.appointments =
                           Put(@, apptId, Appointment(apptId, event.payload.start_time))]
    ELSE rs

ApplyAppointmentCancelled(rs, event) ==
    IF event.type = "APPOINTMENT_CANCELLED" /\ Truthy(event.payload.appt_id)
    THEN LET apptId == event.payload.appt_id
         IN IF TruthyObj(Lookup(rs.state.appointments, apptId))
            THEN [rs EXCEPT !.state.appointments = Put(@, apptId, Null),
                            !.state.metrics.cancelledAppts = @ + 1]
            ELSE rs
    ELSE rs

ApplyEvent(rs, event) ==
    ApplyAppointmentCancelled(ApplyAppointmentSet(ApplyStatusUpdate(rs, event), event), event)

(***************************************************************************)
(* reconcile, lines 181-208: the active appointment.                       *)
(***************************************************************************)
RECURSIVE BestAppt(_, _)
BestAppt(bestAppt, appts) ==
    IF appts = <<>> THEN bestAppt
    ELSE LET appt == Head(appts)
             next == IF ~TruthyObj(appt) THEN bestAppt
                     ELSE IF ~TruthyObj(bestAppt) THEN appt
                     ELSE IF LessThan(compareAsc(parseISO(appt.start_time),
                                                 parseISO(bestAppt.start_time)), 0)
                          THEN appt
                          ELSE bestAppt
         IN BestAppt(next, Tail(appts))

\* Mutant of FinalizeActive: the terminal flag is not consulted.
FinalizeActiveIgnoreTerminal(rs) ==
    [rs.state EXCEPT !.active_appointment = BestAppt(Null, Values(rs.state.appointments))]

FinalizeActive(rs) ==
    IF rs.isTerminal
    THEN [rs.state EXCEPT !.active_appointment = Null]
    ELSE [rs.state EXCEPT !.active_appointment = BestAppt(Null, Values(rs.state.appointments))]

(***************************************************************************)
(* reconcile as a function of the input list.                              *)
(***************************************************************************)
RECURSIVE Replay(_, _)
Replay(rs, evs) ==
    IF evs = <<>> THEN rs ELSE Replay(ApplyEvent(rs, Head(evs)), Tail(evs))

ProcessReferral(referralId, rawEvents) ==
    LET st == InitialState(referralId, rawEvents)
    IN FinalizeActive(Replay([state |-> st, isTerminal |-> FALSE], st.events))

RECURSIVE ProcessAll(_, _)
ProcessAll(acc, groups) ==
    IF groups = <<>> THEN acc
    ELSE ProcessAll(Put(acc, Head(groups).key,
                        ProcessReferral(Head(groups).key, Head(groups).value)),
                    Tail(groups))

reconcile(evs) == ProcessAll(<<>>, GroupEvents(<<>>, evs))

(***************************************************************************)
(* The run of reconcile on one input, step by step.                        *)
(***************************************************************************)
NoState == InitialState("", <<>>)

\* The requests the server can have in flight, and the server at rest: an
\* empty store and no request.
Procs == {"p1", "p2", "p3"}

NoRequest == [endpoint |-> "none"]

NewWriter == [batch |-> <<>>, count |-> 0, promises |-> <<>>]

ServerAtRest ==
    /\ db = <<>>
    /\ req = [p \in Procs |-> NoRequest]
    /\ rpc = [p \in Procs |-> "idle"]
    /\ user = [p \in Procs |-> Missing]
    /\ wr = [p \in Procs |-> NewWriter]
    /\ commitP = [p \in Procs |-> "none"]
    /\ resp = [p \in Procs |-> Missing]
    /\ seen = [p \in Procs |-> Missing]

Init ==
    /\ events \in EventLists
    /\ pc = "group"
    /\ eventsByReferral = <<>>
    /\ todo = <<>>
    /\ state = NoState
    /\ isTerminal = FALSE
    /\ idx = 0
    /\ map = <<>>
    /\ ServerAtRest

\* lines 70-78
Group ==
    /\ pc = "group"
    /\ eventsByReferral' = GroupEvents(<<>>, events)
    /\ todo' = Keys(eventsByReferral')
    /\ pc' = IF todo' = <<>> THEN "done" ELSE "referral"
    /\ UNCHANGED <<events, state, isTerminal, idx, map>>
    /\ UNCHANGED serverVars

\* lines 81-127
BeginReferral ==
    /\ pc = "referral"
    /\ state' = InitialState(Head(todo), Get(eventsByReferral, Head(todo)))
    /\ isTerminal' = FALSE
    /\ idx' = 1
    /\ pc' = "replay"
    /\ UNCHANGED <<events, eventsByReferral, todo, map>>
    /\ UNCHANGED serverVars

\* lines 132, 156, 172: event.payload.<field> is read when event.type is the
\* type the branch tests; with payload undefined the read is a TypeError.
PayloadThrows(event) == event.type \in EventType /\ event.payload = Missing

\* lines 130-179: one iteration of sortedEvents.forEach
ReplayEvent ==
    /\ pc = "replay"
    /\ idx <= Len(state.events)
    /\ ~PayloadThrows(state.events[idx])
    /\ LET rs == ApplyEvent([state |-> state, isTerminal |-> isTerminal], state.events[idx])
       IN /\ state' = rs.state
          /\ isTerminal' = rs.isTerminal
    /\ idx' = idx + 1
    /\ UNCHANGED <<events, pc, eventsByReferral, todo, map>>
    /\ UNCHANGED serverVars

\* lines 181-211
Finalize ==
    /\ pc = "replay"
    /\ idx > Len(state.events)
    /\ LET final == FinalizeActive([state |-> state, isTerminal |-> isTerminal])
       IN /\ state' = final
          /\ map' = Put(map, Head(todo), final)
    /\ todo' = Tail(todo)
    /\ pc' = IF todo' = <<>> THEN "done" ELSE "referral"
    /\ UNCHANGED <<events, eventsByReferral, isTerminal, idx>>
    /\ UNCHANGED serverVars

Next == Group \/ BeginReferral \/ ReplayEvent \/ Finalize

SpecReconcile == Init /\ [][Next]_vars

(***************************************************************************)
(* The same run on the inputs the upload endpoint hands over unvalidated   *)
(* (uploads.ts:53 casts the request array to ReferralEvent[]): events with *)
(* an empty payload, with missing payload fields or with no payload.       *)
(***************************************************************************)
EventWithoutPayload(r, s, t) ==
    [referral_id |-> r, seq |-> s, type |-> t, payload |-> Missing]

LooseUniverse ==
    {ReferralEvent("R1", s, "STATUS_UPDATE", st, Undefined, Undefined) :
        s \in 1..2, st \in {"SENT", "ACKNOWLEDGED", "COMPLETED", Undefined}}
    \cup {ReferralEvent("R1", s, "APPOINTMENT_SET", Undefined, "A", tm) :
        s \in 1..2, tm \in {"2025-05-05T09:00:00Z", Undefined}}
    \cup {EventWithoutPayload("R1", s, "STATUS_UPDATE") : s \in 1..2}
    \cup {ReferralEvent("R2", 1, "APPOINTMENT_SET", Undefined, "B", "2025-05-05T09:00:00Z")}

LooseLists == UNION {[1..n -> LooseUniverse] : n \in 0..MaxLen}

InitLoose ==
    /\ events \in LooseLists
    /\ pc = "group"
    /\ eventsByReferral = <<>>
    /\ todo = <<>>
    /\ state = NoState
    /\ isTerminal = FALSE
    /\ idx = 0
    /\ map = <<>>
    /\ ServerAtRest

\* lines 130-179 when the read of event.payload throws: reconcile is left by
\* the exception and returns no map.
ReplayThrow ==
    /\ pc = "replay"
    /\ idx <= Len(state.events)
    /\ PayloadThrows(state.events[idx])
    /\ pc' = "threw"
    /\ UNCHANGED <<events, eventsByReferral, todo, state, isTerminal, idx, map>>
    /\ UNCHANGED serverVars

NextLoose == Next \/ ReplayThrow

SpecLoose == InitLoose /\ [][NextLoose]_vars

\* The stepwise run computes the function.
RunIsReconcile == pc = "done" => map = reconcile(events)

(***************************************************************************)
(* Vocabulary of the properties.                                           *)
(***************************************************************************)
\* The ReferralStates reconcile has returned so far.
Results == {map[i].value : i \in 1..Len(map)}

\* The number of raw input events that carry referral id r.
RawCount(evs, r) == Cardinality({i \in 1..Len(evs) : evs[i].referral_id = r})

\* A record compared without its key order.
Entries(obj) == {obj[i] : i \in 1..Len(obj)}

IsTerminalUpdate(e) ==
    e.type = "STATUS_UPDATE" /\ e.payload.status \in TERMINAL_STATUSES

IsNonTerminalUpdate(e) ==
    e.type = "STATUS_UPDATE" /\ e.payload.status \in Status \ TERMINAL_STATUSES

SameState(a, b) ==
    /\ a.status = b.status
    /\ a.active_appointment = b.active_appointment
    /\ Entries(a.appointments) = Entries(b.appointments)
    /\ a.events = b.events

Permuted(evs, p) == [i \in 1..Len(evs) |-> evs[p[i]]]

\* C1: for every permutation E' of the input E, reconcile(E') gives every
\* referral the same status, active_appointment, appointments, retained
\* events and metrics counters as reconcile(E).
PermutationInvariance ==
    pc = "done" =>
        \A p \in Permutations(1..Len(events)) :
            LET other == reconcile(Permuted(events, p))
            IN \A r \in Referrals :
                /\ Has(other, r) = Has(map, r)
                /\ Has(map, r) =>
                     /\ SameState(Get(map, r), Get(other, r))
                     /\ Get(map, r).metrics = Get(other, r).metrics

\* C2 as stated: reconcile(E \o E) retains the same events and final state
\* as reconcile(E), and its duplicates counter is twice that of reconcile(E).
DuplicatesDouble ==
    pc = "done" =>
        LET twice == reconcile(events \o events)
        IN \A r \in Referrals :
            Has(map, r) =>
                /\ Has(twice, r)
                /\ SameState(Get(map, r), Get(twice, r))
                /\ Get(twice, r).metrics.duplicates = 2 * Get(map, r).metrics.duplicates

\* C2 amended: reconcile(E \o E) retains the same events and final state as
\* reconcile(E); its duplicates counter is that of reconcile(E) plus the
\* number of events of the referral in E, and the other counters are equal.
DuplicateIdempotence ==
    pc = "done" =>
        LET twice == reconcile(events \o events)
        IN /\ Keys(twice) = Keys(map)
           /\ \A r \in Referrals :
                Has(map, r) =>
                    LET one == Get(map, r)
                        two == Get(twice, r)
                    IN /\ SameState(one, two)
                       /\ two.metrics.duplicates =
                              one.metrics.duplicates + RawCount(events, r)
                       /\ two.metrics = [one.metrics EXCEPT !.duplicates = two.metrics.duplicates]

DuplicateIdempotenceWitness ==
    /\ pc = "done"
    /\ \E r \in Referrals :
        /\ Has(map, r)
        /\ Get(map, r).metrics.duplicates = 1
        /\ Len(Get(map, r).events) = 2
        /\ Get(map, r).status \in TERMINAL_STATUSES

\* The lexicographic order of the appointment ids of the feed.
ApptIdRank(a) == CASE a = "A" -> 1 [] a = "B" -> 2

\* a is before b in the order (start_time, then appt_id ascending).
ApptBefore(a, b) ==
    \/ parseISO(a.start_time) < parseISO(b.start_time)
    \/ /\ parseISO(a.start_time) = parseISO(b.start_time)
       /\ ApptIdRank(a.appt_id) < ApptIdRank(b.appt_id)

NonCancelled(st) == {v \in {e.value : e \in Entries(st.appointments)} : v # Null}

\* C3: in every output, a non-terminal referral with a non-cancelled
\* appointment has a non-null active_appointment that is a non-cancelled
\* entry of appointments and the minimum of the non-cancelled entries under
\* (start_time, appt_id): the smaller appt_id wins a tie of start_time.
ActiveAppointmentMinimal ==
    \A st \in Results :
        (st.status \notin TERMINAL_STATUSES /\ NonCancelled(st) # {}) =>
            /\ st.active_appointment # Null
            /\ st.active_appointment \in NonCancelled(st)
            /\ \A other \in NonCancelled(st) : ~ApptBefore(other, st.active_appointment)

\* The event the replay is about to apply.
Replaying == pc = "replay" /\ idx <= Len(state.events)

Current == state.events[idx]

\* C4: once a terminal STATUS_UPDATE has been applied, a later non-terminal
\* STATUS_UPDATE changes neither status nor any metrics counter, and the
\* status stays COMPLETED or CANCELLED for the rest of the replay.
TerminalAbsorption ==
    [][ /\ (Replaying /\ isTerminal /\ IsNonTerminalUpdate(Current)) =>
            /\ state'.status = state.status
            /\ state'.metrics = state.metrics
            /\ isTerminal'
        /\ (pc = "replay" /\ isTerminal) =>
            /\ state.status \in TERMINAL_STATUSES
            /\ state'.status \in TERMINAL_STATUSES
      ]_vars

TerminalAbsorptionWitness ==
    /\ pc = "replay"
    /\ idx = 3
    /\ IsTerminalUpdate(state.events[1])
    /\ IsNonTerminalUpdate(state.events[2])
    /\ state.status = state.events[1].payload.status

\* The retained terminal STATUS_UPDATEs among the first k events of evs.
TerminalUpdates(evs, k) == {j \in 1..k : IsTerminalUpdate(evs[j])}

OverridesOf(evs, k) ==
    IF TerminalUpdates(evs, k) = {} THEN 0 ELSE Cardinality(TerminalUpdates(evs, k)) - 1

LastTerminal(evs, k) ==
    CHOOSE j \in TerminalUpdates(evs, k) : \A i \in TerminalUpdates(evs, k) : i <= j

\* C5: every retained terminal STATUS_UPDATE replayed while the referral is
\* already terminal sets status to its value and adds one to
\* terminalOverrides, nothing else changes the counter: after k replayed
\* events it is the number of terminal STATUS_UPDATEs among them minus one
\* (0 when there is none), and status is that of the last of them.
TerminalOverridesCount ==
    /\ pc = "replay" =>
        /\ state.metrics.terminalOverrides = OverridesOf(state.events, idx - 1)
        /\ TerminalUpdates(state.events, idx - 1) # {} =>
             state.status = state.events[LastTerminal(state.events, idx - 1)].payload.status
    /\ \A st \in Results :
        /\ st.metrics.terminalOverrides = OverridesOf(st.events, Len(st.events))
        /\ TerminalUpdates(st.events, Len(st.events)) # {} =>
             st.status = st.events[LastTerminal(st.events, Len(st.events))].payload.status

TerminalOverridesWitness ==
    \E st \in Results :
        /\ st.metrics.terminalOverrides = 2
        /\ st.events[1].payload.status = "COMPLETED"
        /\ st.events[2].payload.status = "CANCELLED"
        /\ st.events[3].payload.status = "CANCELLED"
        /\ st.status = "CANCELLED"

\* C6: in every output, a referral whose status is COMPLETED or CANCELLED
\* has active_appointment = null, whatever appointments are non-cancelled.
TerminalImpliesNoActive ==
    \A st \in Results :
        st.status \in TERMINAL_STATUSES => st.active_appointment = Null

TerminalImpliesNoActiveWitness ==
    \E st \in Results :
        /\ st.status \in TERMINAL_STATUSES
        /\ NonCancelled(st) # {}

StrictlyAscending(evs) == \A i \in 1..Len(evs) - 1 : evs[i].seq < evs[i + 1].seq

\* C7: the events list of every referral is strictly ascending by seq, for
\* any input order and any number of duplicates.
EventsStrictlyAscending ==
    /\ \A st \in Results : StrictlyAscending(st.events)
    /\ pc = "replay" => StrictlyAscending(state.events)

EventsStrictlyAscendingWitness ==
    /\ pc = "done"
    /\ Len(events) = 3
    /\ events[1].referral_id = "R1" /\ events[2].referral_id = "R1"
    /\ events[3].referral_id = "R1"
    /\ events[1].seq = 3 /\ events[2].seq = 1 /\ events[3].seq = 3
    /\ Len(Get(map, "R1").events) = 2

\* C8: duplicates + length(events) = the number of input events that carry
\* the referral_id.
DuplicatesCountDropped ==
    /\ \A st \in Results :
        st.metrics.duplicates + Len(st.events) = RawCount(events, st.referral_id)
    /\ pc = "done" => \A r \in Referrals : Has(map, r) <=> RawCount(events, r) > 0

DuplicatesCountDroppedWitness ==
    /\ pc = "done"
    /\ Has(map, "R1") /\ Has(map, "R2")
    /\ Get(map, "R1").metrics.duplicates = 1
    /\ Get(map, "R2").metrics.duplicates = 0

RECURSIVE GapSum(_, _)
GapSum(evs, i) ==
    IF i >= Len(evs) THEN 0
    ELSE LET d == evs[i + 1].seq - evs[i].seq - 1
         IN (IF d > 0 THEN d ELSE 0) + GapSum(evs, i + 1)

FirstOccurrence(evs, r, s) ==
    evs[CHOOSE i \in 1..Len(evs) :
            /\ evs[i].referral_id = r /\ evs[i].seq = s
            /\ \A j \in 1..(i - 1) : ~(evs[j].referral_id = r /\ evs[j].seq = s)]

\* C10: of several input events of one referral that share a seq, the one
\* retained (listed in events and replayed) is the first in input order;
\* each later one is dropped and only adds one to duplicates.
FirstOccurrenceRetained ==
    /\ \A st \in Results :
        /\ \A i \in 1..Len(st.events) :
            st.events[i] = FirstOccurrence(events, st.referral_id, st.events[i].seq)
        /\ st.metrics.duplicates =
            RawCount(events, st.referral_id)
            - Cardinality({events[i].seq : i \in {j \in 1..Len(events) :
                                                  events[j].referral_id = st.referral_id}})
    /\ Replaying => Current = FirstOccurrence(events, state.referral_id, Current.seq)

FirstOccurrenceRetainedWitness ==
    /\ pc = "done"
    /\ Len(events) = 2
    /\ events[1].referral_id = "R1" /\ events[2].referral_id = "R1"
    /\ events[1].seq = events[2].seq
    /\ events[1].payload.status = "SENT"
    /\ events[2].payload.status = "COMPLETED"
    /\ Get(map, "R1").status = "SENT"
    /\ Get(map, "R1").metrics.duplicates = 1

\* The STATUS_UPDATEs among the first k events of evs that carry a status.
StatusUpdates(evs, k) ==
    {j \in 1..k : evs[j].type = "STATUS_UPDATE" /\ evs[j].payload # Missing
                  /\ Truthy(evs[j].payload.status)}

LastOf(S) == CHOOSE j \in S : \A i \in S : i <= j

StatusFollowsUpdates(st, k) ==
    LET applied == StatusUpdates(st.events, k)
    IN /\ applied = {} => st.status = "CREATED"
       /\ (applied # {} /\ \A j \in applied : ~IsTerminalUpdate(st.events[j])) =>
            st.status = st.events[LastOf(applied)].payload.status

Malformed(e) ==
    \/ e.payload = Missing
    \/ e.type = "STATUS_UPDATE" /\ ~Truthy(e.payload.status)
    \/ e.type = "APPOINTMENT_SET"
       /\ (~Truthy(e.payload.appt_id) \/ ~Truthy(e.payload.start_time))
    \/ e.type = "APPOINTMENT_CANCELLED" /\ ~Truthy(e.payload.appt_id)

ReconcileTotal ==
    [][ /\ pc' # "threw"
        /\ (Replaying /\ Malformed(Current)) =>
            /\ state'.status = state.status
            /\ state'.appointments = state.appointments
      ]_vars

\* What holds of the code: an event with an empty payload or a missing
\* payload field changes nothing when it is replayed.
MalformedIgnored ==
    [][(Replaying /\ Malformed(Current) /\ ~PayloadThrows(Current)) =>
            /\ state'.status = state.status
            /\ state'.appointments = state.appointments
            /\ state'.metrics = state.metrics
      ]_vars

(***************************************************************************)
(* The document store.  A document path is (collection, id, seq): the      *)
(* events subcollection of referral r holds the document r_seq, the other  *)
(* collections are keyed by id alone (seq 0).  The store is the function   *)
(* from the paths of the existing documents to their contents.             *)
(***************************************************************************)
Path(col, id, seq) == [col |-> col, id |-> id, seq |-> seq]

Exists(store, path) == path \in DOMAIN store

Read(store, path) == IF Exists(store, path) THEN store[path] ELSE Missing

\* The operations a WriteBatch collects.
SetOp(ref, data) == [kind |-> "set", ref |-> ref, data |-> data]

UpdateOp(ref, data) == [kind |-> "update", ref |-> ref, data |-> data]

DeleteOp(ref) == [kind |-> "delete", ref |-> ref, data |-> Missing]

\* set(ref, data, { merge: true })
MergeOp(ref, data) == [kind |-> "merge", ref |-> ref, data |-> data]

\* The document a merging set leaves: the fields of data replace those of
\* the document field by field, a non-empty map of data is merged into the
\* map of the document entry by entry, the other fields of the document
\* stay.  Of the maps of a referral document, metrics and an appointment
\* carry the same keys in every write, so that only appointments shows the
\* merge.
MergeData(old, data) ==
    LET merged == data @@ old
    IN IF "appointments" \in DOMAIN data /\ "appointments" \in DOMAIN old
          /\ data.appointments # <<>>
       THEN [merged EXCEPT !.appointments =
                SelectSeq(old.appointments, LAMBDA e : ~Has(data.appointments, e.key))
                \o data.appointments]
       ELSE merged

\* Mutant of ApplyOp: set leaves a document that exists as it is.
ApplyOpKeepExisting(st, op) ==
    CASE op.kind = "set" ->
            [st EXCEPT !.docs = st.docs @@ (op.ref :> op.data)]
      [] op.kind = "update" ->
            IF Exists(st.docs, op.ref)
            THEN [st EXCEPT !.docs = (op.ref :> (op.data @@ st.docs[op.ref])) @@ st.docs]
            ELSE [st EXCEPT !.ok = FALSE]
      [] op.kind = "merge" ->
            IF Exists(st.docs, op.ref)
            THEN [st EXCEPT !.docs = (op.ref :> MergeData(st.docs[op.ref], op.data)) @@ st.docs]
            ELSE [st EXCEPT !.docs = (op.ref :> op.data) @@ st.docs]
      [] op.kind = "delete" ->
            [st EXCEPT !.docs = [q \in (DOMAIN st.docs) \ {op.ref} |-> st.docs[q]]]

\* One operation of a committing batch: set replaces the document, update
\* overlays the fields of an existing document and fails the batch when
\* there is none, a merging set merges into an existing document, delete
\* removes the document.
ApplyOp(st, op) ==
    CASE op.kind = "set" ->
            [st EXCEPT !.docs = (op.ref :> op.data) @@ st.docs]
      [] op.kind = "update" ->
            IF Exists(st.docs, op.ref)
            THEN [st EXCEPT !.docs = (op.ref :> (op.data @@ st.docs[op.ref])) @@ st.docs]
            ELSE [st EXCEPT !.ok = FALSE]
      [] op.kind = "merge" ->
            IF Exists(st.docs, op.ref)
            THEN [st EXCEPT !.docs = (op.ref :> MergeData(st.docs[op.ref], op.data)) @@ st.docs]
            ELSE [st EXCEPT !.docs = (op.ref :> op.data) @@ st.docs]
      [] op.kind = "delete" ->
            [st EXCEPT !.docs = [q \in (DOMAIN st.docs) \ {op.ref} |-> st.docs[q]]]

RECURSIVE ApplyRange(_, _, _, _)
ApplyRange(st, ops, lo, hi) ==
    IF lo > hi THEN st
    ELSE IF lo = hi THEN ApplyOp(st, ops[lo])
    ELSE LET mid == (lo + hi) \div 2
             left == ApplyRange(st, ops, lo, mid)
         IN IF left.ok \in BOOLEAN THEN ApplyRange(left, ops, mid + 1, hi) ELSE left

\* WriteBatch.commit(): the operations in order, all or nothing.
ApplyBatch(store, ops) == ApplyRange([docs |-> store, ok |-> TRUE], ops, 1, Len(ops))

(***************************************************************************)
(* firestore.ts: ChunkedBatchWriter.  batch is the list of operations of   *)
(* the current WriteBatch, promises the list of the commits started, each  *)
(* with the operations of its batch and the state of its promise.          *)
(***************************************************************************)
MAX_BATCH_SIZE == 400

\* lines 78-84
rotate(w) ==
    [batch |-> <<>>,
     count |-> 0,
     promises |-> Append(w.promises, [ops |-> w.batch, status |-> "pending"])]

\* Mutant of increment: the batch rotates once it holds more than the limit.
incrementLate(w) ==
    LET c == [w EXCEPT !.count = @ + 1]
    IN IF c.count > MAX_BATCH_SIZE THEN rotate(c) ELSE c

\* lines 71-76
increment(w) ==
    LET c == [w EXCEPT !.count = @ + 1]
    IN IF c.count >= MAX_BATCH_SIZE THEN rotate(c) ELSE c

\* lines 50-54, 57-62, 65-69
WriterSet(w, ref, data) == increment([w EXCEPT !.batch = Append(@, SetOp(ref, data))])

WriterUpdate(w, ref, data) == increment([w EXCEPT !.batch = Append(@, UpdateOp(ref, data))])

WriterDelete(w, ref) == increment([w EXCEPT !.batch = Append(@, DeleteOp(ref))])

\* Mutant of WriterCommit: the batch in progress is committed even when it
\* is empty.
WriterCommitAlways(w) ==
    [w EXCEPT !.promises = Append(@, [ops |-> w.batch, status |-> "pending"])]

\* lines 87-89: the synchronous part of commit()
WriterCommit(w) ==
    IF w.count > 0
    THEN [w EXCEPT !.promises = Append(@, [ops |-> w.batch, status |-> "pending"])]
    ELSE w

\* line 90: Promise.all(this.promises)
AllFulfilled(w) == \A i \in 1..Len(w.promises) : w.promises[i].status = "fulfilled"

SomeRejected(w) == \E i \in 1..Len(w.promises) : w.promises[i].status = "rejected"

\* n consecutive calls of set(ref, data).
RECURSIVE SetTimes(_, _, _, _)
SetTimes(w, ref, data, n) ==
    IF n = 0 THEN w
    ELSE IF n = 1 THEN WriterSet(w, ref, data)
    ELSE LET left == SetTimes(w, ref, data, n \div 2)
         IN IF left.count >= 0 THEN SetTimes(left, ref, data, n - (n \div 2)) ELSE left

(***************************************************************************)
(* The commits in flight.  A chunk's commit reaches the store as a whole   *)
(* or fails as a whole; the promise of commit() follows Promise.all: it    *)
(* fulfils once every chunk's promise has fulfilled and rejects once one   *)
(* has rejected.                                                           *)
(***************************************************************************)
ChunkCommit(p, i) ==
    /\ wr[p].promises[i].status = "pending"
    /\ LET r == ApplyBatch(db, wr[p].promises[i].ops)
       IN /\ r.ok
          /\ db' = r.docs
    /\ wr' = [wr EXCEPT ![p].promises[i].status = "fulfilled"]
    /\ UNCHANGED <<req, rpc, user, commitP, resp, seen>>
    /\ UNCHANGED reconcileVars

ChunkFail(p, i) ==
    /\ wr[p].promises[i].status = "pending"
    /\ wr' = [wr EXCEPT ![p].promises[i].status = "rejected"]
    /\ UNCHANGED <<db, req, rpc, user, commitP, resp, seen>>
    /\ UNCHANGED reconcileVars

CommitFulfilled(p) ==
    /\ commitP[p] = "pending"
    /\ AllFulfilled(wr[p])
    /\ commitP' = [commitP EXCEPT ![p] = "fulfilled"]
    /\ UNCHANGED <<db, req, rpc, user, wr, resp, seen>>
    /\ UNCHANGED reconcileVars

CommitRejected(p) ==
    /\ commitP[p] = "pending"
    /\ SomeRejected(wr[p])
    /\ commitP' = [commitP EXCEPT ![p] = "rejected"]
    /\ UNCHANGED <<db, req, rpc, user, wr, resp, seen>>
    /\ UNCHANGED reconcileVars

(***************************************************************************)
(* firestore.ts, lines 21-34: executeBatch, a caller that drives a writer  *)
(* with set, update and delete and then awaits commit().  The runs start   *)
(* from a writer that has taken a number of set calls already; enqueued    *)
(* lists the operations the caller has passed to the writer so far.        *)
(***************************************************************************)
MaxCalls == 3

Prefills == {0, MAX_BATCH_SIZE - 2, 2 * MAX_BATCH_SIZE - 2}

BuilderRef == Path("referrals", "R1", 0)

ReconcileAtRest ==
    /\ events = <<>>
    /\ pc = "off"
    /\ eventsByReferral = <<>>
    /\ todo = <<>>
    /\ state = NoState
    /\ isTerminal = FALSE
    /\ idx = 0
    /\ map = <<>>

InitWriter ==
    /\ ReconcileAtRest
    /\ db = <<>>
    /\ \E n \in Prefills :
          /\ wr = [p \in Procs |->
                     IF p = "p1"
                     THEN SetTimes(NewWriter, BuilderRef, [status |-> "CREATED"], n)
                     ELSE NewWriter]
          /\ req = [p \in Procs |->
                      IF p = "p1"
                      THEN [endpoint |-> "executeBatch", calls |-> 0,
                            enqueued |-> [i \in 1..n |->
                                            SetOp(BuilderRef, [status |-> "CREATED"])]]
                      ELSE NoRequest]
    /\ rpc = [p \in Procs |-> IF p = "p1" THEN "builder" ELSE "idle"]
    /\ user = [p \in Procs |-> Missing]
    /\ commitP = [p \in Procs |-> "none"]
    /\ resp = [p \in Procs |-> Missing]
    /\ seen = [p \in Procs |-> Missing]

BuilderCall(p, w, op) ==
    /\ rpc[p] = "builder"
    /\ req[p].calls < MaxCalls
    /\ req' = [req EXCEPT ![p].calls = @ + 1, ![p].enqueued = Append(@, op)]
    /\ wr' = [wr EXCEPT ![p] = w]
    /\ UNCHANGED <<db, rpc, user, commitP, resp, seen>>
    /\ UNCHANGED reconcileVars

BuilderSet(p) ==
    BuilderCall(p, WriterSet(wr[p], BuilderRef, [status |-> "SENT"]),
                SetOp(BuilderRef, [status |-> "SENT"]))

BuilderUpdate(p) ==
    BuilderCall(p, WriterUpdate(wr[p], BuilderRef, [status |-> "COMPLETED"]),
                UpdateOp(BuilderRef, [status |-> "COMPLETED"]))

BuilderDelete(p) ==
    BuilderCall(p, WriterDelete(wr[p], BuilderRef), DeleteOp(BuilderRef))

\* line 33: writer.commit() up to its await
BuilderCommit(p) ==
    /\ rpc[p] = "builder"
    /\ wr' = [wr EXCEPT ![p] = WriterCommit(@)]
    /\ commitP' = [commitP EXCEPT ![p] = "pending"]
    /\ rpc' = [rpc EXCEPT ![p] = "awaiting"]
    /\ UNCHANGED <<db, req, user, resp, seen>>
    /\ UNCHANGED reconcileVars

NextWriter ==
    \E p \in Procs :
        \/ BuilderSet(p)
        \/ BuilderUpdate(p)
        \/ BuilderDelete(p)
        \/ BuilderCommit(p)
        \/ \E i \in 1..Len(wr[p].promises) : ChunkCommit(p, i)
        \/ \E i \in 1..Len(wr[p].promises) : ChunkFail(p, i)
        \/ CommitFulfilled(p)
        \/ CommitRejected(p)

\* Promise.all settles once its outcome is decided.
SpecWriter ==
    /\ InitWriter
    /\ [][NextWriter]_vars
    /\ \A p \in Procs : WF_vars(CommitFulfilled(p)) /\ WF_vars(CommitRejected(p))

(***************************************************************************)
(* Properties of the ChunkedBatchWriter.                                   *)
(***************************************************************************)
\* The commits the writer of request p has started.
Chunks(p) == {wr[p].promises[i] : i \in 1..Len(wr[p].promises)}

\* Once commit() has been called, the batch in progress is among the commits.
FinalBatchCommitted(p) ==
    wr[p].count > 0 =>
        /\ wr[p].promises # <<>>
        /\ wr[p].promises[Len(wr[p].promises)].ops = wr[p].batch

\* C16: for any sequence of set, update and delete calls no chunk the writer
\* commits holds more than 400 operations; commit() has resolved only when
\* the commit of every chunk, the last partial one included, has resolved;
\* and when the commit of a chunk fails, commit() does not resolve and rejects.
WriterChunksWithinLimit ==
    /\ [](\A p \in Procs :
            /\ \A c \in Chunks(p) : Len(c.ops) <= MAX_BATCH_SIZE
            /\ commitP[p] = "fulfilled" => AllFulfilled(wr[p]) /\ FinalBatchCommitted(p)
            /\ SomeRejected(wr[p]) => commitP[p] # "fulfilled")
    /\ \A p \in Procs :
            (commitP[p] = "pending" /\ SomeRejected(wr[p])) ~> (commitP[p] = "rejected")

\* commit() has resolved over two chunks, the first of them full.
WriterChunksWitness ==
    /\ commitP["p1"] = "fulfilled"
    /\ Len(wr["p1"].promises) = 2
    /\ Len(wr["p1"].promises[1].ops) = MAX_BATCH_SIZE
    /\ Len(wr["p1"].promises[2].ops) = 1

\* The operations of the first k commits the writer has started, in order.
RECURSIVE ChunkOps(_, _)
ChunkOps(w, k) == IF k = 0 THEN <<>> ELSE ChunkOps(w, k - 1) \o w.promises[k].ops

\* C28: for N enqueued operations the writer issues exactly ceil(N/400)
\* chunk commits, every enqueued operation belongs to exactly one committed
\* chunk and no empty chunk is committed (for N = 0 and for N an exact
\* multiple of 400, commit() adds no extra commit); between calls the pending
\* count stays in 0..399.
WriterChunkCount ==
    LET w == wr["p1"]
        enqueued == req["p1"].enqueued
        N == Len(enqueued)
    IN req["p1"].endpoint = "executeBatch" =>
          /\ w.count \in 0..(MAX_BATCH_SIZE - 1)
          /\ w.count = Len(w.batch)
          /\ \A c \in Chunks("p1") : c.ops # <<>>
          /\ rpc["p1"] = "builder" =>
                /\ Len(w.promises) = N \div MAX_BATCH_SIZE
                /\ ChunkOps(w, Len(w.promises)) \o w.batch = enqueued
          /\ rpc["p1"] # "builder" =>
                /\ Len(w.promises) = (N + MAX_BATCH_SIZE - 1) \div MAX_BATCH_SIZE
                /\ ChunkOps(w, Len(w.promises)) = enqueued

\* commit() has been called after exactly 800 operations, the last two of
\* them passed by the caller: two commits, none for the empty batch.
WriterChunkCountWitness ==
    /\ rpc["p1"] = "awaiting"
    /\ Len(req["p1"].enqueued) = 2 * MAX_BATCH_SIZE
    /\ req["p1"].calls = 2
    /\ Len(wr["p1"].promises) = 2
    /\ wr["p1"].count = 0

(***************************************************************************)
(* The requests.  The Authorization header is the pair of its first seven  *)
(* characters and the rest, or Missing; the body of an upload is a JSON    *)
(* array (events holds its items) or a JSON object with or without an      *)
(* events array.                                                           *)
(***************************************************************************)
Endpoints == {"POST /uploads", "GET /referrals", "GET /referrals/:id", "GET /auth/me"}

Header(prefix, rest) == [prefix |-> prefix, rest |-> rest]

\* Mutant of StartsWithBearer: the scheme is matched without regard to case.
StartsWithBearerAnyCase(authHeader) ==
    authHeader # Missing /\ authHeader.prefix \in {"Bearer ", "bearer "}

\* authHeader?.startsWith("Bearer ") and authHeader.split("Bearer ")[1]
StartsWithBearer(authHeader) == authHeader # Missing /\ authHeader.prefix = "Bearer "

TokenOf(authHeader) == authHeader.rest

\* auth.verifyIdToken: the decoded token of a token the identity provider
\* issued and that has not expired; it throws on any other.
Tokens == {"tok-admin", "tok-viewer", "tok-norole", "tok-nodoc", "tok-Admin"}

verifyIdToken(token) ==
    CASE token = "tok-admin" -> [uid |-> "admin1"]
      [] token = "tok-viewer" -> [uid |-> "viewer1"]
      [] token = "tok-norole" -> [uid |-> "norole1"]
      [] token = "tok-nodoc" -> [uid |-> "nodoc1"]
      [] token = "tok-Admin" -> [uid |-> "Admin1"]
      [] OTHER -> Missing

\* organizations/default/users: the role documents create-user.ts and
\* create-viewer.ts write, a user document without a role, a role in another
\* spelling; nodoc1 has no document.
UserDocs ==
    (Path("users", "admin1", 0) :> [role |-> "admin"])
    @@ (Path("users", "viewer1", 0) :> [role |-> "viewer"])
    @@ (Path("users", "norole1", 0) :> [email |-> "norole@example.com"])
    @@ (Path("users", "Admin1", 0) :> [role |-> "Admin"])

Headers ==
    {Missing, Header("Basic ", "tok-admin"), Header("bearer ", "tok-admin"),
     Header("Bearer ", "tok-expired"), Header("Bearer ", "")}
    \cup {Header("Bearer ", t) : t \in Tokens}

ArrayBody(evs) == [shape |-> "array", hasEvents |-> FALSE, events |-> evs]

ObjectBody(evs) == [shape |-> "object", hasEvents |-> TRUE, events |-> evs]

NoBody == [shape |-> "object", hasEvents |-> FALSE, events |-> <<>>]

Request(endpoint, authHeader, body, id) ==
    [endpoint |-> endpoint, authorization |-> authHeader, body |-> body, id |-> id]

\* nanoid() and new Date().toISOString() of the upload request p.
UploadId(p) == CASE p = "p1" -> "u1" [] p = "p2" -> "u2" [] p = "p3" -> "u3"

Timestamp(p) == CASE p = "p1" -> "t1" [] p = "p2" -> "t2" [] p = "p3" -> "t3"

\* res.status(code).json(body)
Response(code, body) == [status |-> code, body |-> body]

(***************************************************************************)
(* authz.ts: the middleware.                                               *)
(***************************************************************************)
\* lines 29-36
Authenticate(p) ==
    /\ rpc[p] = "authenticate"
    /\ IF ~StartsWithBearer(req[p].authorization)
       THEN /\ resp' = [resp EXCEPT ![p] =
                          Response(401, [message |-> "Unauthorized: Missing Bearer Token"])]
            /\ rpc' = [rpc EXCEPT ![p] = "done"]
       ELSE /\ rpc' = [rpc EXCEPT ![p] = "verifying"]
            /\ UNCHANGED resp
    /\ UNCHANGED <<db, req, user, wr, commitP, seen>>
    /\ UNCHANGED reconcileVars

\* lines 39 and 54-58
VerifyIdToken(p) ==
    /\ rpc[p] = "verifying"
    /\ LET decodedToken == verifyIdToken(TokenOf(req[p].authorization))
       IN IF decodedToken = Missing
          THEN /\ resp' = [resp EXCEPT ![p] =
                             Response(401, [message |-> "Unauthorized: verifyIdToken failed"])]
               /\ rpc' = [rpc EXCEPT ![p] = "done"]
               /\ UNCHANGED seen
          ELSE /\ seen' = [seen EXCEPT ![p] = decodedToken]
               /\ rpc' = [rpc EXCEPT ![p] = "role"]
               /\ UNCHANGED resp
    /\ UNCHANGED <<db, req, user, wr, commitP>>
    /\ UNCHANGED reconcileVars

\* Mutant of RoleOf: a user without a role document is taken for an admin.
RoleOfDefaultAdmin(userData) ==
    IF userData # Missing /\ "role" \in DOMAIN userData /\ userData.role # ""
    THEN userData.role
    ELSE "admin"

\* line 50: userData?.role || "viewer"
RoleOf(userData) ==
    IF userData # Missing /\ "role" \in DOMAIN userData /\ userData.role # ""
    THEN userData.role
    ELSE "viewer"

\* The handler chain of the route: uploads.ts:36, referrals.ts:14 and 35,
\* uploads.ts:202.
AfterAuthenticate(endpoint) ==
    IF endpoint = "POST /uploads" THEN "requireAdmin" ELSE "handler"

\* lines 44-53
RoleLookup(p) ==
    /\ rpc[p] = "role"
    /\ user' = [user EXCEPT ![p] =
                  [uid |-> seen[p].uid,
                   role |-> RoleOf(Read(db, Path("users", seen[p].uid, 0)))]]
    /\ seen' = [seen EXCEPT ![p] = Missing]
    /\ rpc' = [rpc EXCEPT ![p] = AfterAuthenticate(req[p].endpoint)]
    /\ UNCHANGED <<db, req, wr, commitP, resp>>
    /\ UNCHANGED reconcileVars

\* line 64: req.user?.role !== "admin"
IsAdmin(u) == u # Missing /\ u.role = "admin"

\* lines 62-69
RequireAdmin(p) ==
    /\ rpc[p] = "requireAdmin"
    /\ IF ~IsAdmin(user[p])
       THEN /\ resp' = [resp EXCEPT ![p] =
                          Response(403, [message |-> "Forbidden: Admins Only"])]
            /\ rpc' = [rpc EXCEPT ![p] = "done"]
       ELSE /\ rpc' = [rpc EXCEPT ![p] = "handler"]
            /\ UNCHANGED resp
    /\ UNCHANGED <<db, req, user, wr, commitP, seen>>
    /\ UNCHANGED reconcileVars

(***************************************************************************)
(* deriveMetrics.ts: getDerivedMetrics.                                    *)
(***************************************************************************)
\* Mutant of MetricsBucket: the appointment is looked at before the status.
MetricsBucketAppointmentFirst(r) ==
    IF TruthyObj(r.active_appointment) THEN "scheduled"
    ELSE IF r.status = "COMPLETED" THEN "completed"
    ELSE IF r.status = "CANCELLED" THEN "cancelled"
    ELSE "noAppointment"

\* lines 19-25: the branch a referral takes in the forEach
MetricsBucket(r) ==
    IF r.status = "COMPLETED" THEN "completed"
    ELSE IF r.status = "CANCELLED" THEN "cancelled"
    ELSE IF TruthyObj(r.active_appointment) THEN "scheduled"
    ELSE "noAppointment"

getDerivedMetrics(reconciledMap) ==
    LET referrals == Values(reconciledMap)
        completed == Cardinality({i \in 1..Len(referrals) : MetricsBucket(referrals[i]) = "completed"})
        cancelled == Cardinality({i \in 1..Len(referrals) : MetricsBucket(referrals[i]) = "cancelled"})
        scheduled == Cardinality({i \in 1..Len(referrals) : MetricsBucket(referrals[i]) = "scheduled"})
        noAppointment ==
            Cardinality({i \in 1..Len(referrals) : MetricsBucket(referrals[i]) = "noAppointment"})
    IN [total |-> Len(referrals),
        completed |-> completed,
        cancelled |-> cancelled,
        inProgress |-> scheduled + noAppointment,
        scheduled |-> scheduled,
        noAppointment |-> noAppointment]

(***************************************************************************)
(* uploads.ts: POST /uploads.                                              *)
(***************************************************************************)
\* lines 39-50: the body is an array or an object with an events array, and
\* the array the handler takes from it.
HasInputEvents(reqBody) == reqBody.shape = "array" \/ reqBody.hasEvents

InputEvents(reqBody) == reqBody.events

\* reconcile leaves by a TypeError when the replay reaches a retained event
\* of a known type that has no payload.
reconcileThrows(evs) ==
    \E g \in {GroupEvents(<<>>, evs)[i] : i \in 1..Len(GroupEvents(<<>>, evs))} :
        LET retained == InitialState(g.key, g.value).events
        IN \E j \in 1..Len(retained) : PayloadThrows(retained[j])

\* Mutant of EventDoc: the document is stored without its content.
EventDocKeyOnly(event, uploadId, timestamp) ==
    [uploadId |-> uploadId, importedAt |-> timestamp]
    @@ [referral_id |-> event.referral_id, seq |-> event.seq]

\* lines 101-105: { ...event, uploadId, importedAt: timestamp }
EventDoc(event, uploadId, timestamp) ==
    [uploadId |-> uploadId, importedAt |-> timestamp] @@ event

\* lines 93-106: one set per event of the request, in request order
RECURSIVE StoreEvents(_, _, _, _, _, _)
StoreEvents(w, rawEvents, uploadId, timestamp, lo, hi) ==
    IF lo > hi THEN w
    ELSE IF lo = hi
    THEN WriterSet(w, Path("events", rawEvents[lo].referral_id, rawEvents[lo].seq),
                   EventDoc(rawEvents[lo], uploadId, timestamp))
    ELSE LET mid == (lo + hi) \div 2
             left == StoreEvents(w, rawEvents, uploadId, timestamp, lo, mid)
         IN IF left.count >= 0
            THEN StoreEvents(left, rawEvents, uploadId, timestamp, mid + 1, hi)
            ELSE left

\* lines 116-120: { ...state, lastUpdated: timestamp, lastUploadId: uploadId }
ReferralDoc(st, uploadId, timestamp) ==
    [lastUpdated |-> timestamp, lastUploadId |-> uploadId] @@ st

\* lines 110-121: one set per entry of the reconciled map
RECURSIVE StoreReferrals(_, _, _, _)
StoreReferrals(w, entries, uploadId, timestamp) ==
    IF entries = <<>> THEN w
    ELSE StoreReferrals(
            WriterSet(w, Path("referrals", Head(entries).key, 0),
                      ReferralDoc(Head(entries).value, uploadId, timestamp)),
            Tail(entries), uploadId, timestamp)

\* lines 61-121: the writer after the handler has queued its writes
UploadWrites(rawEvents, uploadId, timestamp) ==
    LET reconciledMap == reconcile(rawEvents)
        metrics == getDerivedMetrics(reconciledMap)
        meta == WriterSet(NewWriter, Path("uploads", uploadId, 0),
                          [id |-> uploadId,
                           timestamp |-> timestamp,
                           eventCount |-> Len(rawEvents),
                           referralCount |-> Len(Keys(reconciledMap)),
                           status |-> "COMPLETED",
                           metrics |-> metrics])
        cache == WriterSet(meta, Path("metrics", uploadId, 0),
                           [timestamp |-> timestamp, uploadId |-> uploadId] @@ metrics)
        evs == StoreEvents(cache, rawEvents, uploadId, timestamp, 1, Len(rawEvents))
    IN StoreReferrals(evs, reconciledMap, uploadId, timestamp)

\* lines 128-133
UploadResult(rawEvents, uploadId) ==
    [uploadId |-> uploadId,
     processed |-> Len(rawEvents),
     referrals |-> Len(Keys(reconcile(rawEvents))),
     metrics |-> getDerivedMetrics(reconcile(rawEvents))]

\* lines 37-124: the handler up to its await, and its catch when reconcile
\* throws
UploadHandle(p) ==
    /\ rpc[p] = "handler"
    /\ req[p].endpoint = "POST /uploads"
    /\ LET rawEvents == InputEvents(req[p].body)
       IN IF ~HasInputEvents(req[p].body)
          THEN /\ resp' = [resp EXCEPT ![p] = Response(400, [message |-> "Invalid Input"])]
               /\ rpc' = [rpc EXCEPT ![p] = "done"]
               /\ UNCHANGED <<wr, commitP>>
          ELSE IF reconcileThrows(rawEvents)
          THEN /\ resp' = [resp EXCEPT ![p] =
                             Response(500, [message |-> "Internal Server Error"])]
               /\ rpc' = [rpc EXCEPT ![p] = "done"]
               /\ UNCHANGED <<wr, commitP>>
          ELSE /\ wr' = [wr EXCEPT ![p] =
                           WriterCommit(UploadWrites(rawEvents, UploadId(p), Timestamp(p)))]
               /\ commitP' = [commitP EXCEPT ![p] = "pending"]
               /\ rpc' = [rpc EXCEPT ![p] = "awaiting"]
               /\ UNCHANGED resp
    /\ UNCHANGED <<db, req, user, seen>>
    /\ UNCHANGED reconcileVars

\* Mutant of UploadRespondOk: the response does not wait for the commits.
UploadRespondEarly(p) ==
    /\ rpc[p] = "awaiting"
    /\ req[p].endpoint = "POST /uploads"
    /\ resp' = [resp EXCEPT ![p] =
                  Response(200, UploadResult(InputEvents(req[p].body), UploadId(p)))]
    /\ rpc' = [rpc EXCEPT ![p] = "done"]
    /\ UNCHANGED <<db, req, user, wr, commitP, seen>>
    /\ UNCHANGED reconcileVars

\* lines 124-133: commit() has fulfilled
UploadRespondOk(p) ==
    /\ rpc[p] = "awaiting"
    /\ req[p].endpoint = "POST /uploads"
    /\ commitP[p] = "fulfilled"
    /\ resp' = [resp EXCEPT ![p] =
                  Response(200, UploadResult(InputEvents(req[p].body), UploadId(p)))]
    /\ rpc' = [rpc EXCEPT ![p] = "done"]
    /\ UNCHANGED <<db, req, user, wr, commitP, seen>>
    /\ UNCHANGED reconcileVars

\* lines 124 and 135-138: commit() has rejected
UploadRespondError(p) ==
    /\ rpc[p] = "awaiting"
    /\ req[p].endpoint = "POST /uploads"
    /\ commitP[p] = "rejected"
    /\ resp' = [resp EXCEPT ![p] = Response(500, [message |-> "Internal Server Error"])]
    /\ rpc' = [rpc EXCEPT ![p] = "done"]
    /\ UNCHANGED <<db, req, user, wr, commitP, seen>>
    /\ UNCHANGED reconcileVars

(***************************************************************************)
(* referrals.ts: GET /referrals and GET /referrals/:id; uploads.ts,        *)
(* lines 202-214: GET /auth/me.                                            *)
(***************************************************************************)
\* The document ids of the referrals collection, ascending.
ReferralOrder == <<"R1", "R2">>

\* lines 18-26 (the limit of 100 documents is above the referrals modelled)
ListReferrals(p) ==
    /\ rpc[p] = "handler"
    /\ req[p].endpoint = "GET /referrals"
    /\ LET ids == SelectSeq(ReferralOrder, LAMBDA r : Exists(db, Path("referrals", r, 0)))
           referrals == [i \in 1..Len(ids) |->
                            db[Path("referrals", ids[i], 0)] @@ [referral_id |-> ids[i]]]
       IN resp' = [resp EXCEPT ![p] = Response(200, [referrals |-> referrals])]
    /\ rpc' = [rpc EXCEPT ![p] = "done"]
    /\ UNCHANGED <<db, req, user, wr, commitP, seen>>
    /\ UNCHANGED reconcileVars

\* lines 37-45: the first read
GetReferral(p) ==
    /\ rpc[p] = "handler"
    /\ req[p].endpoint = "GET /referrals/:id"
    /\ LET doc == Read(db, Path("referrals", req[p].id, 0))
       IN IF doc = Missing
          THEN /\ resp' = [resp EXCEPT ![p] =
                             Response(404, [message |-> "Referral not found"])]
               /\ rpc' = [rpc EXCEPT ![p] = "done"]
               /\ UNCHANGED seen
          ELSE /\ seen' = [seen EXCEPT ![p] = doc]
               /\ rpc' = [rpc EXCEPT ![p] = "events"]
               /\ UNCHANGED resp
    /\ UNCHANGED <<db, req, user, wr, commitP>>
    /\ UNCHANGED reconcileVars

\* docRef.collection("events").orderBy("seq", "asc").get()
EventSeqs(store, id) == {path.seq : path \in {q \in DOMAIN store : q.col = "events" /\ q.id = id}}

Ascending(S) ==
    CHOOSE f \in [1..Cardinality(S) -> S] : \A i, j \in 1..Cardinality(S) : i < j => f[i] < f[j]

EventsOf(store, id) ==
    LET seqs == Ascending(EventSeqs(store, id))
    IN [i \in 1..Len(seqs) |-> store[Path("events", id, seqs[i])]]

\* lines 60-67: the second read and the response { ...data, referral_id, events }
GetReferralEvents(p) ==
    /\ rpc[p] = "events"
    /\ resp' = [resp EXCEPT ![p] =
                  Response(200, [referral_id |-> req[p].id,
                                 events |-> EventsOf(db, req[p].id)] @@ seen[p])]
    /\ seen' = [seen EXCEPT ![p] = Missing]
    /\ rpc' = [rpc EXCEPT ![p] = "done"]
    /\ UNCHANGED <<db, req, user, wr, commitP>>
    /\ UNCHANGED reconcileVars

\* uploads.ts, lines 202-214
AuthMe(p) ==
    /\ rpc[p] = "handler"
    /\ req[p].endpoint = "GET /auth/me"
    /\ resp' = [resp EXCEPT ![p] =
                  IF user[p] = Missing
                  THEN Response(401, [message |-> "Not authenticated"])
                  ELSE Response(200, [uid |-> user[p].uid, role |-> user[p].role])]
    /\ rpc' = [rpc EXCEPT ![p] = "done"]
    /\ UNCHANGED <<db, req, user, wr, commitP, seen>>
    /\ UNCHANGED reconcileVars

(***************************************************************************)
(* One request of any kind against the server, with a reader of referral   *)
(* R1 that has passed authenticate.  The store holds the user documents    *)
(* and either no referral or what an earlier upload (u0) left.             *)
(***************************************************************************)
StatusEvent(r, s, st) == ReferralEvent(r, s, "STATUS_UPDATE", st, Undefined, Undefined)

\* An upload of more events than one chunk holds.
BulkEvents ==
    [i \in 1..MAX_BATCH_SIZE + 1 |->
        IF i <= MAX_BATCH_SIZE
        THEN StatusEvent("R1", 1, "SENT")
        ELSE StatusEvent("R1", 2, "COMPLETED")]

UploadBodies ==
    {ArrayBody(<<StatusEvent("R1", 1, "SENT")>>),
     ObjectBody(<<StatusEvent("R1", 1, "COMPLETED"), StatusEvent("R2", 1, "SENT")>>),
     ArrayBody(<<StatusEvent("R1", 1, "SENT"), StatusEvent("R1", 1, "COMPLETED")>>),
     ArrayBody(<<ReferralEvent("R1", 1, "NO_SHOW", Undefined, Undefined, Undefined)>>),
     ArrayBody(<<EventWithoutPayload("R1", 1, "STATUS_UPDATE")>>),
     ArrayBody(BulkEvents),
     ArrayBody(<<>>),
     NoBody}

Requests ==
    {Request("POST /uploads", h, b, "") : h \in Headers, b \in UploadBodies}
    \cup {Request("GET /referrals/:id", h, NoBody, id) : h \in Headers, id \in {"R1", "R9"}}
    \cup {Request(e, h, NoBody, "") : e \in {"GET /referrals", "GET /auth/me"}, h \in Headers}

PriorEvents ==
    <<StatusEvent("R1", 1, "ACKNOWLEDGED"),
      ReferralEvent("R1", 2, "APPOINTMENT_SET", Undefined, "A", "2025-05-05T09:00:00Z")>>

\* The store after the upload u0 of PriorEvents has committed.
PriorStore ==
    ApplyBatch(UserDocs, WriterCommit(UploadWrites(PriorEvents, "u0", "t0")).promises[1].ops).docs

Stores == {UserDocs, PriorStore}

Reader == Request("GET /referrals/:id", Header("Bearer ", "tok-viewer"), NoBody, "R1")

InitGate ==
    /\ ReconcileAtRest
    /\ db \in Stores
    /\ \E r \in Requests :
          req = [p \in Procs |-> CASE p = "p1" -> r [] p = "p2" -> Reader [] OTHER -> NoRequest]
    /\ rpc = [p \in Procs |->
                CASE p = "p1" -> "authenticate" [] p = "p2" -> "handler" [] OTHER -> "idle"]
    /\ user = [p \in Procs |->
                IF p = "p2" THEN [uid |-> "viewer1", role |-> "viewer"] ELSE Missing]
    /\ wr = [p \in Procs |-> NewWriter]
    /\ commitP = [p \in Procs |-> "none"]
    /\ resp = [p \in Procs |-> Missing]
    /\ seen = [p \in Procs |-> Missing]

NextGate ==
    \E p \in Procs :
        \/ Authenticate(p)
        \/ VerifyIdToken(p)
        \/ RoleLookup(p)
        \/ RequireAdmin(p)
        \/ UploadHandle(p)
        \/ \E i \in 1..Len(wr[p].promises) : ChunkCommit(p, i)
        \/ \E i \in 1..Len(wr[p].promises) : ChunkFail(p, i)
        \/ CommitFulfilled(p)
        \/ CommitRejected(p)
        \/ UploadRespondOk(p)
        \/ UploadRespondError(p)
        \/ ListReferrals(p)
        \/ GetReferral(p)
        \/ GetReferralEvents(p)
        \/ AuthMe(p)

SpecGate == InitGate /\ [][NextGate]_vars

(***************************************************************************)
(* Properties of the endpoints.                                            *)
(***************************************************************************)
IsUpload(p) == req[p].endpoint = "POST /uploads"

Responded(p, code) == resp[p] # Missing /\ resp[p].status = code

\* The handler of request p has run or is running: it has passed the
\* middleware, read the store, queued writes or taken a referral document.
HandlerRan(p) ==
    \/ rpc[p] \in {"handler", "events", "awaiting"}
    \/ wr[p] # NewWriter
    \/ commitP[p] # "none"
    \/ resp[p] # Missing /\ resp[p].status \notin {401, 403}

\* The request carries no Authorization header, one that does not begin with
\* "Bearer ", or a token the identity provider does not accept.
Unauthenticated(r) ==
    \/ r.authorization = Missing
    \/ r.authorization.prefix # "Bearer "
    \/ r.authorization.rest \notin Tokens

AdminRequest(r) == r.authorization = Header("Bearer ", "tok-admin")

\* C13: POST /uploads reaches reconciliation and persistence only with a
\* verified token whose user has the role admin; a viewer, a user without a
\* role record and any other role is answered 403 and nothing is written.
OnlyAdminUploads ==
    \A p \in Procs :
        IsUpload(p) =>
            /\ HandlerRan(p) => AdminRequest(req[p])
            /\ (~Unauthenticated(req[p]) /\ ~AdminRequest(req[p])) =>
                  /\ rpc[p] = "done" => Responded(p, 403)
                  /\ db \in Stores

\* An upload by a user without a role document has been answered 403.
OnlyAdminUploadsWitness ==
    /\ rpc["p1"] = "done"
    /\ IsUpload("p1")
    /\ req["p1"].authorization = Header("Bearer ", "tok-nodoc")
    /\ req["p1"].body = ArrayBody(<<StatusEvent("R1", 1, "SENT")>>)
    /\ Responded("p1", 403)

\* The body carries an event the schema of the endpoint does not admit: a
\* type outside the three event types or no payload object.
InvalidEvent(e) == e.type \notin EventType \/ e.payload = Missing

HasInvalidEvent(reqBody) ==
    /\ HasInputEvents(reqBody)
    /\ \E i \in 1..Len(InputEvents(reqBody)) : InvalidEvent(InputEvents(reqBody)[i])

\* C14: an upload with an event whose type is not one of the three event
\* types, or that lacks the payload object, is rejected as a whole with 400
\* and nothing of it is persisted.
InvalidEventsRejected ==
    \A p \in Procs :
        (IsUpload(p) /\ AdminRequest(req[p]) /\ HasInvalidEvent(req[p].body)) =>
            /\ rpc[p] = "done" => Responded(p, 400)
            /\ wr[p] = NewWriter
            /\ db \in Stores

\* The read-model upload p computed.
Reconciled(p) == reconcile(InputEvents(req[p].body))

\* The paths of the event documents among the writes upload p has started.
EventRefsWritten(p) ==
    UNION {{c.ops[i].ref : i \in {j \in 1..Len(c.ops) : c.ops[j].ref.col = "events"}} :
              c \in Chunks(p)}

\* The keys (referral_id, seq) of the events reconciliation retained.
RetainedRefs(p) ==
    UNION {{Path("events", e.key, e.value.events[j].seq) : j \in 1..Len(e.value.events)} :
              e \in Entries(Reconciled(p))}

\* C17: once an upload is answered 200, the event documents it wrote are one
\* per retained event, keyed by (referral_id, seq), and the content stored
\* under each key is the event reconciliation retained for that key, the
\* event the read-model was computed from.
EventDocsAreRetained ==
    \A p \in Procs :
        (IsUpload(p) /\ Responded(p, 200)) =>
            /\ EventRefsWritten(p) = RetainedRefs(p)
            /\ \A e \in Entries(Reconciled(p)) :
                  \A j \in 1..Len(e.value.events) :
                      Read(db, Path("events", e.key, e.value.events[j].seq))
                          = EventDoc(e.value.events[j], UploadId(p), Timestamp(p))

\* GET /referrals/:id answered from one store: { ...data, referral_id, events }
View(store, id) ==
    [referral_id |-> id, events |-> EventsOf(store, id)] @@ store[Path("referrals", id, 0)]

\* The store once every chunk of writer w has committed onto store.
RECURSIVE AfterChunks(_, _, _)
AfterChunks(store, w, i) ==
    IF i > Len(w.promises) THEN store
    ELSE AfterChunks(ApplyBatch(store, w.promises[i].ops).docs, w, i + 1)

\* The stores a reader may be answered from: the store before the upload
\* and the store with the upload complete.
WholeStores ==
    Stores \cup {AfterChunks(s, wr[p], 1) : s \in Stores, p \in {q \in Procs : IsUpload(q)}}

\* C18: a GET /referrals/:id concurrent with an upload is answered either
\* with the referral as it was before the upload or with the upload's
\* complete read-model and all its event documents, never with a mixture.
ReaderSeesWholeUpload ==
    \A q \in Procs :
        (req[q].endpoint = "GET /referrals/:id" /\ Responded(q, 200)) =>
            \E s \in WholeStores :
                /\ Exists(s, Path("referrals", req[q].id, 0))
                /\ resp[q].body = View(s, req[q].id)

\* The referral document upload p wrote for referral r.
ReadModelOf(p, r) == ReferralDoc(Get(Reconciled(p), r), UploadId(p), Timestamp(p))

\* C19: POST /uploads answers 200 only when the commit of every chunk has
\* succeeded, and then the store holds the read-model of each referral of the
\* upload, which is what a later GET /referrals/:id reads; when the commit of
\* a chunk has failed the upload is answered 500, never 200.
OkOnlyAfterAllCommits ==
    /\ [](\A p \in Procs :
            IsUpload(p) =>
                /\ Responded(p, 200) =>
                      /\ wr[p].promises # <<>>
                      /\ AllFulfilled(wr[p])
                      /\ FinalBatchCommitted(p)
                      /\ \A r \in Referrals :
                            Has(Reconciled(p), r) =>
                                Read(db, Path("referrals", r, 0)) = ReadModelOf(p, r)
                /\ SomeRejected(wr[p]) =>
                      /\ ~Responded(p, 200)
                      /\ rpc[p] = "done" => Responded(p, 500))
    /\ [][\A p, q \in Procs :
            (/\ IsUpload(p) /\ Responded(p, 200)
             /\ req[q].endpoint = "GET /referrals/:id"
             /\ Has(Reconciled(p), req[q].id)
             /\ rpc[q] = "handler" /\ rpc'[q] # "handler")
            => seen'[q] = ReadModelOf(p, req[q].id)]_vars

\* An upload of two chunks has been answered 200 and the reader, which read
\* after that, has been answered with the read-model of the upload.
OkOnlyAfterAllCommitsWitness ==
    /\ IsUpload("p1")
    /\ Responded("p1", 200)
    /\ Len(wr["p1"].promises) = 2
    /\ Responded("p2", 200)
    /\ resp["p2"].body.lastUploadId = UploadId("p1")
    /\ resp["p2"].body.status = "COMPLETED"

(***************************************************************************)
(* Two uploads by admins that have passed the middleware, both carrying    *)
(* events of referral R1, run concurrently.                                *)
(***************************************************************************)
ConcurrentBodies ==
    {ArrayBody(<<StatusEvent("R1", 1, "SENT")>>),
     ArrayBody(<<StatusEvent("R1", 2, "COMPLETED"), StatusEvent("R2", 1, "SENT")>>),
     ArrayBody(BulkEvents)}

Uploaders == {"p1", "p2"}

InitConcurrent ==
    /\ ReconcileAtRest
    /\ db \in Stores
    /\ \E b1, b2 \in ConcurrentBodies :
          req = [p \in Procs |->
                   CASE p = "p1" -> Request("POST /uploads", Header("Bearer ", "tok-admin"), b1, "")
                     [] p = "p2" -> Request("POST /uploads", Header("Bearer ", "tok-admin"), b2, "")
                     [] OTHER -> NoRequest]
    /\ rpc = [p \in Procs |-> IF p \in Uploaders THEN "handler" ELSE "idle"]
    /\ user = [p \in Procs |->
                IF p \in Uploaders THEN [uid |-> "admin1", role |-> "admin"] ELSE Missing]
    /\ wr = [p \in Procs |-> NewWriter]
    /\ commitP = [p \in Procs |-> "none"]
    /\ resp = [p \in Procs |-> Missing]
    /\ seen = [p \in Procs |-> Missing]

NextConcurrent ==
    \E p \in Procs :
        \/ UploadHandle(p)
        \/ \E i \in 1..Len(wr[p].promises) : ChunkCommit(p, i)
        \/ \E i \in 1..Len(wr[p].promises) : ChunkFail(p, i)
        \/ CommitFulfilled(p)
        \/ CommitRejected(p)
        \/ UploadRespondOk(p)
        \/ UploadRespondError(p)

SpecConcurrent == InitConcurrent /\ [][NextConcurrent]_vars

\* Chunk i of upload p holds the write of the referral document of r.
WritesReferral(p, i, r) ==
    \E k \in 1..Len(wr[p].promises[i].ops) :
        wr[p].promises[i].ops[k].ref = Path("referrals", r, 0)

\* C20: with two concurrent uploads that both carry events of referral R,
\* in every interleaving of their chunk commits the referral document of R
\* is in full the state one of the two uploads wrote, the one whose write
\* committed last and never a mixture of fields, and once both are answered
\* 200 every event key (R, seq) written by either of them exists.
LastUploadWinsWhole ==
    /\ [](\A r \in Referrals :
            LET doc == Read(db, Path("referrals", r, 0))
            IN \/ \E s \in Stores : doc = Read(s, Path("referrals", r, 0))
               \/ \E p \in Uploaders : Has(Reconciled(p), r) /\ doc = ReadModelOf(p, r))
    /\ []((\A p \in Uploaders : Responded(p, 200)) =>
            /\ \A r \in Referrals :
                  (\E p \in Uploaders : Has(Reconciled(p), r)) =>
                      \E p \in Uploaders :
                          /\ Has(Reconciled(p), r)
                          /\ Read(db, Path("referrals", r, 0)) = ReadModelOf(p, r)
            /\ \A p \in Uploaders : \A ref \in EventRefsWritten(p) : Exists(db, ref))
    /\ [][\A p \in Uploaders : \A i \in 1..Len(wr[p].promises) : \A r \in Referrals :
            (/\ wr[p].promises[i].status = "pending"
             /\ wr'[p].promises[i].status = "fulfilled"
             /\ WritesReferral(p, i, r))
            => Read(db', Path("referrals", r, 0)) = ReadModelOf(p, r)]_vars

\* Both uploads are answered 200, their states of R1 differ, and the
\* document of R1 is the one p1 wrote: its write committed after p2's.
LastUploadWinsWitness ==
    /\ \A p \in Uploaders : Responded(p, 200)
    /\ ReadModelOf("p1", "R1") # ReadModelOf("p2", "R1")
    /\ Get(Reconciled("p1"), "R1").status # Get(Reconciled("p2"), "R1").status
    /\ Len(wr["p1"].promises) = 2
    /\ Read(db, Path("referrals", "R1", 0)) = ReadModelOf("p1", "R1")

(***************************************************************************)
(* Uploads one after the other: the second upload is sent once the first   *)
(* has been answered (a retry when it carries the same batch), and a       *)
(* reader of referral R1 asks once the second has been answered.  A chunk  *)
(* of an upload answered 500 may still be in flight when the next request  *)
(* arrives.                                                                *)
(***************************************************************************)
\* More events than one chunk holds, with two different events of key
\* (R1, 1) that land in different chunks.
ConflictEvents ==
    [i \in 1..MAX_BATCH_SIZE - 1 |->
        IF i < MAX_BATCH_SIZE - 1
        THEN StatusEvent("R1", 1, "SENT")
        ELSE StatusEvent("R1", 1, "COMPLETED")]

SequenceBodies ==
    ConcurrentBodies
    \cup {ArrayBody(<<StatusEvent("R1", 1, "SENT"), StatusEvent("R1", 1, "COMPLETED")>>),
          ArrayBody(<<ReferralEvent("R1", 3, "APPOINTMENT_SET", Undefined, "B",
                                    "2025-05-10T09:00:00Z")>>),
          ArrayBody(ConflictEvents)}

\* The request sent before request p.
Predecessor(p) == CASE p = "p2" -> "p1" [] p = "p3" -> "p2"

InitSequence ==
    /\ ReconcileAtRest
    /\ db \in Stores
    /\ \E b1, b2 \in SequenceBodies :
          req = [p \in Procs |->
                   CASE p = "p1" -> Request("POST /uploads", Header("Bearer ", "tok-admin"), b1, "")
                     [] p = "p2" -> Request("POST /uploads", Header("Bearer ", "tok-admin"), b2, "")
                     [] p = "p3" -> Reader]
    /\ rpc = [p \in Procs |-> IF p = "p1" THEN "handler" ELSE "idle"]
    /\ user = [p \in Procs |->
                IF p = "p3" THEN [uid |-> "viewer1", role |-> "viewer"]
                ELSE [uid |-> "admin1", role |-> "admin"]]
    /\ wr = [p \in Procs |-> NewWriter]
    /\ commitP = [p \in Procs |-> "none"]
    /\ resp = [p \in Procs |-> Missing]
    /\ seen = [p \in Procs |-> Missing]

\* The client sends request p after the answer to the request before it.
Arrive(p) ==
    /\ rpc[p] = "idle"
    /\ p # "p1"
    /\ rpc[Predecessor(p)] = "done"
    /\ rpc' = [rpc EXCEPT ![p] = "handler"]
    /\ UNCHANGED <<db, req, user, wr, commitP, resp, seen>>
    /\ UNCHANGED reconcileVars

NextSequence ==
    \E p \in Procs :
        \/ Arrive(p)
        \/ UploadHandle(p)
        \/ \E i \in 1..Len(wr[p].promises) : ChunkCommit(p, i)
        \/ \E i \in 1..Len(wr[p].promises) : ChunkFail(p, i)
        \/ CommitFulfilled(p)
        \/ CommitRejected(p)
        \/ UploadRespondOk(p)
        \/ UploadRespondError(p)
        \/ GetReferral(p)
        \/ GetReferralEvents(p)

SpecSequence == InitSequence /\ [][NextSequence]_vars

\* A document without the fields that name the upload that wrote it.
StripUpload(doc) ==
    [f \in (DOMAIN doc) \ {"uploadId", "importedAt", "lastUploadId", "lastUpdated"} |-> doc[f]]

\* What the store holds of referral r: its read-model and its event
\* documents by seq, without the upload fields.
ReferralContent(store, r) ==
    [doc |-> IF Exists(store, Path("referrals", r, 0))
             THEN StripUpload(store[Path("referrals", r, 0)])
             ELSE Missing,
     events |-> [s \in EventSeqs(store, r) |-> StripUpload(store[Path("events", r, s)])]]

RECURSIVE CommitInOrder(_, _, _, _)
CommitInOrder(store, w, order, k) ==
    IF k > Len(w.promises) THEN store
    ELSE CommitInOrder(ApplyBatch(store, w.promises[order[k]].ops).docs, w, order, k + 1)

\* The stores one successful upload of the events evs can leave on store:
\* its chunks committed in any order.
SingleUploadStores(store, evs) ==
    LET w == WriterCommit(UploadWrites(evs, "u", "t"))
    IN {CommitInOrder(store, w, order, 1) : order \in Permutations(1..Len(w.promises))}

\* The store the run started from.
StoreBefore == IF Exists(db, Path("uploads", "u0", 0)) THEN PriorStore ELSE UserDocs

IsRetry(p) ==
    /\ p # "p1"
    /\ IsUpload(p)
    /\ IsUpload(Predecessor(p))
    /\ req[p].body = req[Predecessor(p)].body

\* C21: an upload of the same batch sent again, after a complete upload or
\* after one answered 500 with only some of its chunks committed, leaves
\* every referral of the batch with the read-model and the event documents
\* (set and content) one successful upload of the batch leaves, apart from
\* uploadId, lastUploadId and the timestamps.
RetryIsIdempotent ==
    \A p \in Procs :
        (IsRetry(p) /\ Responded(p, 200)) =>
            \A r \in Referrals :
                Has(Reconciled(p), r) =>
                    /\ ReferralContent(db, r).doc = Get(Reconciled(p), r)
                    /\ \E s \in SingleUploadStores(StoreBefore, InputEvents(req[p].body)) :
                          ReferralContent(db, r) = ReferralContent(s, r)

\* The first upload of a two-chunk batch was answered 500 with one chunk
\* committed and one failed, and the retry has been answered 200.
RetryIsIdempotentWitness ==
    /\ IsRetry("p2")
    /\ Responded("p1", 500)
    /\ Len(wr["p1"].promises) = 2
    /\ wr["p1"].promises[1].status = "rejected"
    /\ wr["p1"].promises[2].status = "fulfilled"
    /\ Responded("p2", 200)

\* The events of referral r in the list evs, in the order of the list.
EventsOfReferral(evs, r) ==
    LET IsOfReferral(e) == e.referral_id = r
    IN SelectSeq(evs, IsOfReferral)

\* The positions in the body of upload p of the events of key (r, s).
PositionsOf(p, r, s) ==
    {i \in 1..Len(InputEvents(req[p].body)) :
        /\ InputEvents(req[p].body)[i].referral_id = r
        /\ InputEvents(req[p].body)[i].seq = s}

\* The seqs of the events of referral r in the body of upload p.
SeqsOf(p, r) ==
    {InputEvents(req[p].body)[i].seq :
        i \in {j \in 1..Len(InputEvents(req[p].body)) :
                  InputEvents(req[p].body)[j].referral_id = r}}

LastPosition(S) == CHOOSE i \in S : \A j \in S : j <= i

\* The upload that wrote the event document of key (r, s) last: the latest
\* upload whose body holds an event of that key, "none" if neither does.
LastWriter(r, s) ==
    IF PositionsOf("p2", r, s) # {} THEN "p2"
    ELSE IF PositionsOf("p1", r, s) # {} THEN "p1"
    ELSE "none"

\* doc is the document the upload p wrote for key (r, s): one of the events
\* of that key in its body (the last of them when the upload is one chunk),
\* with the upload's id.
WrittenBy(doc, p, r, s) ==
    /\ doc.uploadId = UploadId(p)
    /\ \E i \in PositionsOf(p, r, s) : StripUpload(doc) = InputEvents(req[p].body)[i]
    /\ Len(wr[p].promises) = 1 =>
          StripUpload(doc) = InputEvents(req[p].body)[LastPosition(PositionsOf(p, r, s))]

\* The most recent upload that touched referral r, "none" if neither did.
LastToucher(r) ==
    IF EventsOfReferral(InputEvents(req["p2"].body), r) # <<>> THEN "p2"
    ELSE IF EventsOfReferral(InputEvents(req["p1"].body), r) # <<>> THEN "p1"
    ELSE "none"

PayloadField(event, f) == IF event.payload = Missing THEN Undefined ELSE event.payload[f]

\* new Date(s): the time value, NaN for a string Date.parse does not accept.
\* Date.parse accepts the ISO format and the format of toUTCString.
newDate(s) ==
    CASE s = "2025-05-05T09:00:00Z" -> 4
      [] s = "2025-05-10T09:00:00Z" -> 9
      [] s = "Mon, 05 May 2025 09:00:00 GMT" -> 4
      [] OTHER -> NaN

\* lines 886-924: one iteration of sortedEvents.forEach
fnApplyEvent(rs, event) ==
    LET status == PayloadField(event, "status")
        apptId == PayloadField(event, "appt_id")
        startTime == PayloadField(event, "start_time")
        afterStatus ==
            IF event.type = "STATUS_UPDATE" /\ Truthy(status)
            THEN IF rs.isTerminal
                 THEN IF status \in TERMINAL_STATUSES
                      THEN [rs EXCEPT !.state.status = status,
                                      !.state.metrics.terminalOverrides = @ + 1]
                      ELSE rs
                 ELSE [rs EXCEPT !.state.status = status,
                                 !.isTerminal = status \in TERMINAL_STATUSES]
            ELSE rs
        old == Lookup(afterStatus.state.appointments, apptId)
        afterSet ==
            IF event.type = "APPOINTMENT_SET" /\ Truthy(apptId) /\ Truthy(startTime)
            THEN [afterStatus EXCEPT
                    !.state.metrics.reschedules =
                        IF TruthyObj(old) /\ old.start_time # startTime THEN @ + 1 ELSE @,
                    !.state.appointments = Put(@, apptId, Appointment(apptId, startTime))]
            ELSE afterStatus
    IN IF event.type = "APPOINTMENT_CANCELLED" /\ Truthy(apptId)
          /\ TruthyObj(Lookup(afterSet.state.appointments, apptId))
       THEN [afterSet EXCEPT !.state.appointments = Put(@, apptId, Null),
                             !.state.metrics.cancelledAppts = @ + 1]
       ELSE afterSet

RECURSIVE fnReplay(_, _)
fnReplay(rs, evs) ==
    IF evs = <<>> THEN rs ELSE fnReplay(fnApplyEvent(rs, Head(evs)), Tail(evs))

\* lines 931-940
RECURSIVE fnBestAppt(_, _)
fnBestAppt(bestAppt, appts) ==
    IF appts = <<>> THEN bestAppt
    ELSE LET appt == Head(appts)
             next == IF ~TruthyObj(appt) THEN bestAppt
                     ELSE IF ~TruthyObj(bestAppt) THEN appt
                     ELSE IF LessThan(newDate(appt.start_time), newDate(bestAppt.start_time))
                          THEN appt
                          ELSE bestAppt
         IN fnBestAppt(next, Tail(appts))

\* lines 843-948: the state of one referral, with its metadata
fnProcessReferral(referralId, rawEvents, uploadId, timestamp) ==
    LET st == InitialState(referralId, rawEvents)
        rs == fnReplay([state |-> st, isTerminal |-> FALSE], st.events)
        active == IF rs.isTerminal THEN Null
                  ELSE fnBestAppt(Null, Values(rs.state.appointments))
    IN [lastUpdated |-> timestamp, lastUploadId |-> uploadId]
       @@ [rs.state EXCEPT !.active_appointment = active]

\* lines 830-949: referralMap
RECURSIVE fnReferralMap(_, _, _, _)
fnReferralMap(acc, groups, uploadId, timestamp) ==
    IF groups = <<>> THEN acc
    ELSE fnReferralMap(
            Put(acc, Head(groups).key,
                fnProcessReferral(Head(groups).key, Head(groups).value, uploadId, timestamp)),
            Tail(groups), uploadId, timestamp)

\* lines 952-960
fnMetrics(referralMap) ==
    LET referrals == Values(referralMap)
        all == 1..Len(referrals)
        open == {i \in all : referrals[i].status \notin {"COMPLETED", "CANCELLED"}}
    IN [total |-> Len(referrals),
        completed |-> Cardinality({i \in all : referrals[i].status = "COMPLETED"}),
        cancelled |-> Cardinality({i \in all : referrals[i].status = "CANCELLED"}),
        inProgress |-> Cardinality(open),
        scheduled |-> Cardinality({i \in open : TruthyObj(referrals[i].active_appointment)}),
        noAppointment |->
            Cardinality({i \in open : ~TruthyObj(referrals[i].active_appointment)})]

(***************************************************************************)
(* functions index.ts, lines 793-1009: the handler of POST /api/uploads.   *)
(***************************************************************************)
\* lines 795-815: the header check, verifyIdToken (its rejection is caught
\* at line 1005) and the role check.  No request of this specification
\* writes a user document, so the two awaits are taken in one step.
FnAuthorize(p) ==
    /\ rpc[p] = "fnAuthorize"
    /\ LET decoded == verifyIdToken(TokenOf(req[p].authorization))
           userData == Read(db, Path("users", decoded.uid, 0))
           answer ==
               IF ~StartsWithBearer(req[p].authorization)
               THEN Response(401, [message |-> "Unauthorized"])
               ELSE IF decoded = Missing
               THEN Response(500, [message |-> "Internal Server Error"])
               ELSE IF userData = Missing \/ "role" \notin DOMAIN userData
                       \/ userData.role # "admin"
               THEN Response(403, [message |-> "Admin access required"])
               ELSE Missing
       IN IF answer = Missing
          THEN /\ rpc' = [rpc EXCEPT ![p] = "handler"]
               /\ UNCHANGED resp
          ELSE /\ rpc' = [rpc EXCEPT ![p] = "done"]
               /\ resp' = [resp EXCEPT ![p] = answer]
    /\ UNCHANGED <<db, req, user, wr, commitP, seen>>
    /\ UNCHANGED reconcileVars

\* lines 817-997: the body check, the reconciliation and the one WriteBatch
\* with the metrics, the upload and the referral documents, up to the await
\* of its commit
FnUploadHandle(p) ==
    /\ rpc[p] = "handler"
    /\ req[p].endpoint = "POST /api/uploads"
    /\ IF req[p].body.shape # "array"
       THEN /\ resp' = [resp EXCEPT ![p] =
                          Response(400, [message |-> "Expected array of events"])]
            /\ rpc' = [rpc EXCEPT ![p] = "done"]
            /\ UNCHANGED wr
       ELSE LET evs == req[p].body.events
                referralMap == fnReferralMap(<<>>, GroupEvents(<<>>, evs),
                                             UploadId(p), Timestamp(p))
                metrics == fnMetrics(referralMap)
                ops == <<SetOp(Path("metrics", UploadId(p), 0),
                               [timestamp |-> Timestamp(p), uploadId |-> UploadId(p)]
                               @@ metrics),
                         SetOp(Path("uploads", UploadId(p), 0),
                               [id |-> UploadId(p),
                                timestamp |-> Timestamp(p),
                                eventCount |-> Len(evs),
                                referralCount |-> Len(referralMap),
                                status |-> "COMPLETED",
                                metrics |-> metrics])>>
                       \o [i \in 1..Len(referralMap) |->
                             MergeOp(Path("referrals", referralMap[i].value.referral_id, 0),
                                     referralMap[i].value)]
            IN /\ wr' = [wr EXCEPT ![p] =
                           [batch |-> <<>>, count |-> 0,
                            promises |-> <<[ops |-> ops, status |-> "pending"]>>]]
               /\ rpc' = [rpc EXCEPT ![p] = "awaiting"]
               /\ UNCHANGED resp
    /\ UNCHANGED <<db, req, user, commitP, seen>>
    /\ UNCHANGED reconcileVars

\* lines 997-1008: the commit has settled
FnRespond(p) ==
    /\ rpc[p] = "awaiting"
    /\ req[p].endpoint = "POST /api/uploads"
    /\ wr[p].promises[1].status # "pending"
    /\ resp' = [resp EXCEPT ![p] =
                  IF wr[p].promises[1].status = "fulfilled"
                  THEN Response(200, [uploadId |-> UploadId(p),
                                      processed |-> Len(req[p].body.events),
                                      referrals |-> Len(GroupEvents(<<>>, req[p].body.events)),
                                      message |-> "Events processed and saved successfully"])
                  ELSE Response(500, [message |-> "Internal Server Error"])]
    /\ rpc' = [rpc EXCEPT ![p] = "done"]
    /\ UNCHANGED <<db, req, user, wr, commitP, seen>>
    /\ UNCHANGED reconcileVars

\* The events of the requests: the feed, an event without payload, and a
\* start_time in the format of Date.prototype.toUTCString.
FnUniverse ==
    {StatusEvent("R1", 1, "SENT"), StatusEvent("R1", 1, "COMPLETED"),
     StatusEvent("R2", 1, "SENT"),
     EventWithoutPayload("R1", 1, "STATUS_UPDATE"),
     ReferralEvent("R1", 2, "APPOINTMENT_SET", Undefined, "A", "2025-05-10T09:00:00Z"),
     ReferralEvent("R1", 3, "APPOINTMENT_SET", Undefined, "B", "2025-05-05T09:00:00Z"),
     ReferralEvent("R1", 3, "APPOINTMENT_SET", Undefined, "B", "Mon, 05 May 2025 09:00:00 GMT"),
     ReferralEvent("R1", 3, "APPOINTMENT_CANCELLED", Undefined, "A", Undefined)}

FnBodies ==
    {ArrayBody(evs) : evs \in UNION {[1..n -> FnUniverse] : n \in 0..MaxLen}}
    \cup {ObjectBody(<<>>)}

InitFunctions ==
    /\ ReconcileAtRest
    /\ db \in Stores
    /\ \E h \in Headers, b \in FnBodies :
          /\ h = Header("Bearer ", "tok-admin") \/ b = ArrayBody(<<>>)
          /\ req = [p \in Procs |->
                      IF p = "p1" THEN Request("POST /api/uploads", h, b, "") ELSE NoRequest]
    /\ rpc = [p \in Procs |-> IF p = "p1" THEN "fnAuthorize" ELSE "idle"]
    /\ user = [p \in Procs |-> Missing]
    /\ wr = [p \in Procs |-> NewWriter]
    /\ commitP = [p \in Procs |-> "none"]
    /\ resp = [p \in Procs |-> Missing]
    /\ seen = [p \in Procs |-> Missing]

NextFunctions ==
    \E p \in Procs :
        \/ FnAuthorize(p)
        \/ FnUploadHandle(p)
        \/ \E i \in 1..Len(wr[p].promises) : ChunkCommit(p, i)
        \/ \E i \in 1..Len(wr[p].promises) : ChunkFail(p, i)
        \/ FnRespond(p)

SpecFunctions == InitFunctions /\ [][NextFunctions]_vars

IsFnUpload(p) == req[p].endpoint = "POST /api/uploads"

\* The referral documents the Cloud Functions upload p computed.
FnReconciled(p) ==
    fnReferralMap(<<>>, GroupEvents(<<>>, req[p].body.events), UploadId(p), Timestamp(p))

\* C22: after an upload that touches referral R, the read-model document of
\* R is the document that upload computed and nothing else: no appointment
\* entry, counter or other field of the document an earlier upload wrote is
\* left, in the server handler and in the Cloud Functions handler.
FullReplacement ==
    \A p \in Procs : \A r \in Referrals :
        /\ (IsUpload(p) /\ Responded(p, 200) /\ Has(Reconciled(p), r)) =>
              Read(db, Path("referrals", r, 0)) = ReadModelOf(p, r)
        /\ (IsFnUpload(p) /\ Responded(p, 200) /\ Has(FnReconciled(p), r)) =>
              /\ Read(db, Path("referrals", r, 0)) = Get(FnReconciled(p), r)
              /\ Entries(Read(db, Path("referrals", r, 0)).appointments)
                    = Entries(Get(FnReconciled(p), r).appointments)

\* The Cloud Functions handler has reconciled the events of request p.
FnReconciledRan(p) == IsFnUpload(p) /\ wr[p].promises # <<>>

\* The state the inlined reconciliation computed, without its metadata.
FnState(p, r) == StripUpload(Get(FnReconciled(p), r))

\* C29: for every batch of events the reconciliation inlined in the Cloud
\* Functions upload handler and the domain reconcile produce, for every
\* referral, the same status, appointments, active_appointment, retained
\* events and metrics counters, and the same aggregate metrics.
FunctionsMatchesDomain ==
    \A p \in Procs :
        FnReconciledRan(p) =>
            /\ ~reconcileThrows(req[p].body.events)
            /\ Keys(FnReconciled(p)) = Keys(reconcile(req[p].body.events))
            /\ \A r \in Referrals :
                  Has(FnReconciled(p), r) =>
                      FnState(p, r) = Get(reconcile(req[p].body.events), r)
            /\ fnMetrics(FnReconciled(p)) = getDerivedMetrics(reconcile(req[p].body.events))

(***************************************************************************)
(* dataQuality.ts: computeDataQualitySummary, and the callers of the two   *)
(* summary functions: the dashboard calls getDerivedMetrics on the map of  *)
(* the referrals it holds, the data quality page calls                     *)
(* computeDataQualitySummary on their list.                                *)
(***************************************************************************)
\* r.metrics?.<field> || 0
Metric(r, f) == IF r.metrics = Missing THEN 0 ELSE r.metrics[f]

\* lines 32-36: referrals.reduce((sum, r) => sum + ..., 0)
RECURSIVE SumMetric(_, _)
SumMetric(referrals, f) ==
    IF referrals = <<>> THEN 0
    ELSE SumMetric(SubSeq(referrals, 1, Len(referrals) - 1), f)
         + Metric(referrals[Len(referrals)], f)

\* lines 39-50
ReferralIssue(r) ==
    [id |-> r.referral_id,
     duplicates |-> Metric(r, "duplicates"),
     seqGaps |-> Metric(r, "seqGaps"),
     overrides |-> Metric(r, "terminalOverrides"),
     score |-> Metric(r, "duplicates") + Metric(r, "seqGaps")
               + (Metric(r, "terminalOverrides") * 2)]

\* line 52: Array.prototype.sort with the comparator b.score - a.score (a
\* stable sort)
RECURSIVE InsertByScore(_, _)
InsertByScore(sorted, e) ==
    IF sorted = <<>> THEN <<e>>
    ELSE IF Head(sorted).score - e.score < 0 THEN <<e>> \o sorted
    ELSE <<Head(sorted)>> \o InsertByScore(Tail(sorted), e)

RECURSIVE SortByScore(_)
SortByScore(issues) ==
    IF issues = <<>> THEN <<>>
    ELSE InsertByScore(SortByScore(SubSeq(issues, 1, Len(issues) - 1)), issues[Len(issues)])

\* lines 31-63
computeDataQualitySummary(referrals) ==
    LET mapped == [i \in 1..Len(referrals) |-> ReferralIssue(referrals[i])]
        sorted == SortByScore(SelectSeq(mapped, LAMBDA r : r.score > 0))
    IN [totalDuplicates |-> SumMetric(referrals, "duplicates"),
        totalSeqGaps |-> SumMetric(referrals, "seqGaps"),
        totalTerminalOverrides |-> SumMetric(referrals, "terminalOverrides"),
        totalReschedules |-> SumMetric(referrals, "reschedules"),
        totalCancelledAppts |-> SumMetric(referrals, "cancelledAppts"),
        referralsWithIssues |-> SubSeq(sorted, 1, IF Len(sorted) < 10 THEN Len(sorted) ELSE 10)]

\* The referral ids of the summaries, in ascending order.
SummaryIds ==
    <<"R01", "R02", "R03", "R04", "R05", "R06", "R07", "R08", "R09", "R10", "R11", "R12">>

\* A ReferralState with the fields the summaries read.
SummaryState(id, status, appt, duplicates, seqGaps, overrides) ==
    [referral_id |-> id,
     status |-> status,
     active_appointment |-> appt,
     metrics |-> [duplicates |-> duplicates, seqGaps |-> seqGaps,
                  terminalOverrides |-> overrides, reschedules |-> 0, cancelledAppts |-> 0],
     events |-> <<>>,
     appointments |-> <<>>]

\* The states one referral of the input can be in.
SummaryStates(id) ==
    {SummaryState(id, "SENT", Null, 0, 0, 0),
     SummaryState(id, "SCHEDULED", Appointment("A", "2025-05-05T09:00:00Z"), 1, 0, 0),
     SummaryState(id, "CREATED", Appointment("A", "2025-05-05T09:00:00Z"), 0, 1, 0),
     SummaryState(id, "COMPLETED", Null, 0, 0, 1),
     SummaryState(id, "COMPLETED", Appointment("A", "2025-05-05T09:00:00Z"), 0, 0, 0),
     SummaryState(id, "CANCELLED", Null, 1, 1, 0)}

\* The inputs: up to MaxLen referrals of distinct ids in any order, and all
\* twelve referrals, listed in descending order of their ids, with scores
\* 1, 2, 1, 2, ...
SummaryInputs ==
    {rs \in UNION {[1..n -> UNION {SummaryStates(SummaryIds[k]) : k \in 1..MaxLen}] :
                      n \in 0..MaxLen} :
        \A i, j \in 1..Len(rs) : rs[i].referral_id = rs[j].referral_id => i = j}
    \cup {[i \in 1..Len(SummaryIds) |->
              SummaryState(SummaryIds[Len(SummaryIds) + 1 - i],
                           "SENT", Null, 1, i % 2, 0)]}

InitSummary ==
    /\ ReconcileAtRest
    /\ db = <<>>
    /\ \E rs \in SummaryInputs :
          req = [p \in Procs |->
                   CASE p = "p1" -> [endpoint |-> "getDerivedMetrics", referrals |-> rs]
                     [] p = "p2" -> [endpoint |-> "computeDataQualitySummary", referrals |-> rs]
                     [] OTHER -> NoRequest]
    /\ rpc = [p \in Procs |-> IF p = "p3" THEN "idle" ELSE "call"]
    /\ user = [p \in Procs |-> Missing]
    /\ wr = [p \in Procs |-> NewWriter]
    /\ commitP = [p \in Procs |-> "none"]
    /\ resp = [p \in Procs |-> Missing]
    /\ seen = [p \in Procs |-> Missing]

\* The dashboard: getDerivedMetrics(referralMap), the map keyed by referral_id
CallMetrics(p) ==
    /\ rpc[p] = "call"
    /\ req[p].endpoint = "getDerivedMetrics"
    /\ LET rs == req[p].referrals
           reconciledMap == [i \in 1..Len(rs) |-> [key |-> rs[i].referral_id, value |-> rs[i]]]
       IN resp' = [resp EXCEPT ![p] = getDerivedMetrics(reconciledMap)]
    /\ rpc' = [rpc EXCEPT ![p] = "done"]
    /\ UNCHANGED <<db, req, user, wr, commitP, seen>>
    /\ UNCHANGED reconcileVars

\* The data quality page: computeDataQualitySummary(referrals)
CallQuality(p) ==
    /\ rpc[p] = "call"
    /\ req[p].endpoint = "computeDataQualitySummary"
    /\ resp' = [resp EXCEPT ![p] = computeDataQualitySummary(req[p].referrals)]
    /\ rpc' = [rpc EXCEPT ![p] = "done"]
    /\ UNCHANGED <<db, req, user, wr, commitP, seen>>
    /\ UNCHANGED reconcileVars

NextSummary == \E p \in Procs : CallMetrics(p) \/ CallQuality(p)

SpecSummary == InitSummary /\ [][NextSummary]_vars

\* The number of referrals of the list rs that satisfy Test.
CountOf(rs, Test(_)) == Cardinality({i \in 1..Len(rs) : Test(rs[i])})

InProgress(r) == r.status \notin {"COMPLETED", "CANCELLED"}

Returned(p, endpoint) == req[p].endpoint = endpoint /\ rpc[p] = "done"

\* C23: getDerivedMetrics returns total = the number of referrals, completed
\* and cancelled = the counts of those statuses, inProgress = total -
\* completed - cancelled, scheduled = the number of in-progress referrals
\* with a non-null active_appointment and noAppointment = inProgress -
\* scheduled, so that completed + cancelled + scheduled + noAppointment = total.
MetricsPartition ==
    \A p \in Procs :
        Returned(p, "getDerivedMetrics") =>
            LET rs == req[p].referrals
                m == resp[p]
            IN /\ m.total = Len(rs)
               /\ m.completed = CountOf(rs, LAMBDA r : r.status = "COMPLETED")
               /\ m.cancelled = CountOf(rs, LAMBDA r : r.status = "CANCELLED")
               /\ m.inProgress = m.total - m.completed - m.cancelled
               /\ m.scheduled =
                     CountOf(rs, LAMBDA r : InProgress(r) /\ r.active_appointment # Null)
               /\ m.noAppointment = m.inProgress - m.scheduled
               /\ m.completed + m.cancelled + m.scheduled + m.noAppointment = m.total

\* The metrics of a completed referral that still carries an appointment, a
\* scheduled one and one without appointment have been returned.
MetricsPartitionWitness ==
    /\ Returned("p1", "getDerivedMetrics")
    /\ Len(req["p1"].referrals) = 3
    /\ \E i \in 1..3 :
          /\ req["p1"].referrals[i].status = "COMPLETED"
          /\ req["p1"].referrals[i].active_appointment # Null
    /\ resp["p1"].completed = 1
    /\ resp["p1"].scheduled = 1
    /\ resp["p1"].noAppointment = 1

\* The place of a referral id in the ascending order of the ids.
IdRank(id) == CHOOSE k \in 1..Len(SummaryIds) : SummaryIds[k] = id

\* Issue a ranks before issue b: by score descending, then by id ascending.
Outranks(a, b) ==
    \/ a.score > b.score
    \/ a.score = b.score /\ IdRank(a.id) < IdRank(b.id)

\* C24: referralsWithIssues holds at most 10 referrals, all with score =
\* duplicates + seqGaps + 2 * terminalOverrides > 0, ordered by score
\* descending with ties by ascending referral_id, and no omitted referral
\* outranks an included one, whatever the order of the input list.
QualityTopTen ==
    \A p \in Procs :
        Returned(p, "computeDataQualitySummary") =>
            LET rs == req[p].referrals
                out == resp[p].referralsWithIssues
                included == {out[i] : i \in 1..Len(out)}
                issues == {ReferralIssue(rs[i]) : i \in 1..Len(rs)}
            IN /\ Len(out) <= 10
               /\ included \subseteq {x \in issues : x.score > 0}
               /\ \A x \in included :
                     x.score = x.duplicates + x.seqGaps + 2 * x.overrides
               /\ \A i, j \in 1..Len(out) : i < j => Outranks(out[i], out[j])
               /\ \A x \in issues \ included :
                     x.score > 0 => \A y \in included : ~Outranks(x, y)

(***************************************************************************)
(* The requests of SpecGate with the identity provider and the document    *)
(* store free to fail: the awaited call rejects with an error of the       *)
(* service, kept in seen.                                                  *)
(***************************************************************************)
\* authz.ts, lines 39, 44 and 54-58: verifyIdToken or the read of the user
\* document rejects; the catch of authenticate answers
AuthenticateCatch(p) ==
    /\ rpc[p] \in {"verifying", "role"}
    /\ seen' = [seen EXCEPT ![p] = [error |-> "UNAVAILABLE", at |-> rpc[p]]]
    /\ resp' = [resp EXCEPT ![p] = Response(401, [message |-> "Unauthorized: UNAVAILABLE"])]
    /\ rpc' = [rpc EXCEPT ![p] = "done"]
    /\ UNCHANGED <<db, req, user, wr, commitP>>
    /\ UNCHANGED reconcileVars

\* referrals.ts, lines 18, 40, 60 and 27-30, 69-72: a read of the referrals
\* or of the events rejects; the catch of the handler answers
HandlerReadCatch(p) ==
    /\ \/ rpc[p] = "handler" /\ req[p].endpoint \in {"GET /referrals", "GET /referrals/:id"}
       \/ rpc[p] = "events"
    /\ seen' = [seen EXCEPT ![p] = [error |-> "UNAVAILABLE", at |-> rpc[p]]]
    /\ resp' = [resp EXCEPT ![p] = Response(500, [message |-> "Internal Server Error"])]
    /\ rpc' = [rpc EXCEPT ![p] = "done"]
    /\ UNCHANGED <<db, req, user, wr, commitP>>
    /\ UNCHANGED reconcileVars

NextOutage ==
    \/ NextGate
    \/ \E p \in Procs : AuthenticateCatch(p) \/ HandlerReadCatch(p)

SpecOutage == InitGate /\ [][NextOutage]_vars

\* A call of request p to the identity provider or to the store has failed.
UpstreamFailed(p) ==
    \/ "error" \in DOMAIN seen[p]
    \/ SomeRejected(wr[p])

\* C25: a failure of the identity provider or of the document store while
\* serving a request is answered 500 with a generic message that does not
\* carry the text of the error; so is, with a valid token, a failure of the
\* read of the user document in the role lookup (500, not 401).
UpstreamFailureIs500 ==
    \A p \in Procs :
        (UpstreamFailed(p) /\ rpc[p] = "done") =>
            /\ Responded(p, 500)
            /\ resp[p].body = [message |-> "Internal Server Error"]

(***************************************************************************)
(* Properties of the replay of appointment events.                         *)
(***************************************************************************)
\* The entries of appointments other than that of appointment a.
OtherAppointments(st, a) == {e \in Entries(st.appointments) : e.key # a}

\* C26: an APPOINTMENT_SET for appt_id a adds exactly one to reschedules if
\* and only if appointments[a] exists, is not cancelled and has a start_time
\* different from the event's; it adds nothing when a was never seen, when
\* the start_time is the same and when a is cancelled (also with a new
\* start_time); in all cases appointments[a] becomes {a, start_time}.
ReschedulesCounted ==
    [][(Replaying /\ Current.type = "APPOINTMENT_SET") =>
          LET a == Current.payload.appt_id
              present == /\ Has(state.appointments, a)
                         /\ Get(state.appointments, a) # Null
                         /\ Get(state.appointments, a).start_time # Current.payload.start_time
          IN /\ state'.metrics.reschedules =
                    state.metrics.reschedules + (IF present THEN 1 ELSE 0)
             /\ state'.metrics = [state.metrics EXCEPT !.reschedules = state'.metrics.reschedules]
             /\ Has(state'.appointments, a)
             /\ Get(state'.appointments, a) = Appointment(a, Current.payload.start_time)
             /\ OtherAppointments(state', a) = OtherAppointments(state, a)
             /\ state'.status = state.status
      ]_vars

\* Appointment A was set, cancelled and set again with another start_time:
\* no reschedule has been counted.
ReschedulesCountedWitness ==
    /\ pc = "replay"
    /\ idx = 4
    /\ state.events[1].type = "APPOINTMENT_SET"
    /\ state.events[2].type = "APPOINTMENT_CANCELLED"
    /\ state.events[3].type = "APPOINTMENT_SET"
    /\ state.events[1].payload.appt_id = "A"
    /\ state.events[3].payload.appt_id = "A"
    /\ state.events[1].payload.start_time # state.events[3].payload.start_time
    /\ state.metrics.reschedules = 0
    /\ state.metrics.cancelledAppts = 1
    /\ Get(state.appointments, "A") = Appointment("A", state.events[3].payload.start_time)

\* C27: an APPOINTMENT_CANCELLED for appt_id a marks appointments[a]
\* cancelled and adds one to cancelledAppts when appointments[a] exists and
\* is not cancelled; when a was never set or is already cancelled it leaves
\* appointments, status and every counter as they are and creates no entry.
CancellationCounted ==
    [][(Replaying /\ Current.type = "APPOINTMENT_CANCELLED") =>
          LET a == Current.payload.appt_id
          IN IF Has(state.appointments, a) /\ Get(state.appointments, a) # Null
             THEN /\ Get(state'.appointments, a) = Null
                  /\ OtherAppointments(state', a) = OtherAppointments(state, a)
                  /\ state'.metrics =
                        [state.metrics EXCEPT !.cancelledAppts = state.metrics.cancelledAppts + 1]
                  /\ state'.status = state.status
             ELSE /\ state'.appointments = state.appointments
                  /\ state'.metrics = state.metrics
                  /\ state'.status = state.status
                  /\ Has(state'.appointments, a) = Has(state.appointments, a)
      ]_vars

\* Appointment A was cancelled before it was set, then set, cancelled: one
\* cancellation has been counted; appointment A is cancelled, not absent.
CancellationCountedWitness ==
    /\ pc = "replay"
    /\ idx = 4
    /\ state.events[1].type = "APPOINTMENT_CANCELLED"
    /\ state.events[2].type = "APPOINTMENT_SET"
    /\ state.events[3].type = "APPOINTMENT_CANCELLED"
    /\ state.events[2].payload.appt_id = "A"
    /\ state.metrics.cancelledAppts = 1
    /\ Has(state.appointments, "A")
    /\ Get(state.appointments, "A") = Null

====
